---- MODULE Spec2Model ----
(***************************************************************************)
(* A model of the F1 multilingual RAG chatbot: the Flask endpoints of      *)
(* app.py, the RAG chain, the language handler, the text chunker, the      *)
(* vector-store client and the scrapers that feed them.                    *)
(*                                                                         *)
(* Texts are sequences of tokens.  A token is a word, one of the trim      *)
(* phrases of _post_process_response, "." or " ".  Every external service  *)
(* (langdetect, googletrans, Groq, Pinecone, Wikipedia, Selenium, OpenF1)  *)
(* is an environment whose answer to each call is chosen freely from a     *)
(* small set that includes failure.                                        *)
(***************************************************************************)
EXTENDS Integers, Sequences, FiniteSets, TLC

VARIABLES
    indexExists,   \* the Pinecone index PINECONE_INDEX_NAME is listed
    index,         \* the vector records of that index: id -> [content, metadata]
    response,      \* the HTTP response of the request being answered, or None
    request,       \* the endpoint and body that response answers
    trace,         \* the steps F1RAGChain.query took for that request, in order
    opLog,         \* the operations the request ran, each with its outcome
    calls,         \* the external requests the request issued, in order
    scraped_data,  \* the raw documents handed to process_scraped_data
    all_chunks,    \* what process_scraped_data returned for them
    workers        \* the futures of a thread pool: what each worker is doing or did

vars == <<indexExists, index, response, request, trace, opLog, calls, scraped_data, all_chunks,
          workers>>

-----------------------------------------------------------------------------
(* Bounds of the model *)

\* Config.CHUNK_SIZE and Config.CHUNK_OVERLAP are read from the environment
\* (512 and 100 by default); the model runs the chunker with small values.
CHUNK_SIZE == 4
CHUNK_OVERLAP == 1
\* the retriever returns at most this many documents (Config.TOP_K caps it)
MaxRetrieved == 1
\* the first MaxTopics titles of get_f1_related_pages are scraped
MaxTopics == 1

(* Program constants *)
TOP_K == 10
SOURCE_LIMIT == 5
SENTENCE_LIMIT == 3

-----------------------------------------------------------------------------
(* Python helpers *)

Min(a, b) == IF a < b THEN a ELSE b

\* dict.get(key, default): a dict is a function whose domain holds its keys
Get(d, k, default) == IF k \in DOMAIN d THEN d[k] ELSE default

\* Python truthiness of a sequence or string: non-empty
Truthy(s) == s # <<>>

\* s[a:] and s[:b] of a sequence
DropFirst(s, n) == IF n >= Len(s) THEN <<>> ELSE SubSeq(s, n + 1, Len(s))
TakeFirst(s, n) == IF n >= Len(s) THEN s ELSE SubSeq(s, 1, n)

RECURSIVE LStrip(_)
LStrip(s) == IF s # <<>> /\ Head(s) = " " THEN LStrip(Tail(s)) ELSE s

RECURSIVE RStrip(_)
RStrip(s) == IF s # <<>> /\ s[Len(s)] = " " THEN RStrip(SubSeq(s, 1, Len(s) - 1)) ELSE s

\* str.strip()
Strip(s) == RStrip(LStrip(s))

\* str.endswith('.')
EndsWithDot(s) == s # <<>> /\ s[Len(s)] = "."

\* the position of the first '. ' in s, 0 when there is none
FirstSep(s) ==
    LET hits == {i \in 1..(Len(s) - 1) : s[i] = "." /\ s[i + 1] = " "}
    IN  IF hits = {} THEN 0 ELSE CHOOSE i \in hits : \A j \in hits : i <= j

\* str.split('. ')
RECURSIVE SplitSentences(_)
SplitSentences(s) ==
    LET i == FirstSep(s)
    IN  IF i = 0 THEN <<s>>
        ELSE <<SubSeq(s, 1, i - 1)>> \o SplitSentences(DropFirst(s, i + 1))

\* '. '.join(pieces)
RECURSIVE JoinSentences(_)
JoinSentences(pieces) ==
    IF pieces = <<>> THEN <<>>
    ELSE IF Len(pieces) = 1 THEN pieces[1]
    ELSE pieces[1] \o <<".", " ">> \o JoinSentences(Tail(pieces))

\* keyword in s
Contains(s, keyword) == \E i \in 1..Len(s) : s[i] = keyword

\* s.split(keyword)[0]: what precedes the first occurrence of keyword
BeforeKeyword(s, keyword) ==
    LET hits == {i \in 1..Len(s) : s[i] = keyword}
        first == CHOOSE i \in hits : \A j \in hits : i <= j
    IN  IF hits = {} THEN s ELSE SubSeq(s, 1, first - 1)

-----------------------------------------------------------------------------
(* src/llm/language_detector.py *)

\* what an operation did: returned val, or let an exception out
Ret(v) == [raised |-> FALSE, val |-> v]
Raised == [raised |-> TRUE, val |-> <<>>]

\* langdetect.detect: an ISO code, or LangDetectException
DetectAnswers == {"en", "hi", "fr", "RAISE"}

\* detection that hands on whatever code the detector reports
DetectPassingThrough(detected) ==
    IF detected = "RAISE" THEN Ret("en") ELSE Ret(detected)

detect_language(detected) ==
    IF detected = "RAISE" THEN Ret("en")
    ELSE IF detected \in {"hi", "hindi"} THEN Ret("hi")
    ELSE IF detected \in {"en", "english"} THEN Ret("en")
    ELSE Ret("en")

\* an external service's answer: [ok |-> TRUE, val |-> ...], or a failure
Failure == [ok |-> FALSE, val |-> <<>>]
Success(v) == [ok |-> TRUE, val |-> v]

\* translate_to_english(text, source_lang); answer is what Translator.translate does
translate_to_english(text, source_lang, answer) ==
    IF source_lang = "en" THEN Ret(text)
    ELSE IF answer.ok THEN Ret(answer.val)
    ELSE Ret(text)

\* translate_response(text, target_lang)
translate_response(text, target_lang, answer) ==
    IF target_lang = "en" THEN Ret(text)
    ELSE IF answer.ok THEN Ret(answer.val)
    ELSE Ret(text)

-----------------------------------------------------------------------------
(* src/langchain_pipeline/rag_chain.py *)

keywords_to_trim ==
    << "However, I can provide more", "Additionally,", "Furthermore,",
       "As per the provided context,", "Unfortunately, the context doesn't provide" >>

\* one turn of the loop over keywords_to_trim
TrimKeyword(short_response, keyword) ==
    IF Contains(short_response, keyword)
    THEN LET cut == Strip(BeforeKeyword(short_response, keyword))
         IN  IF EndsWithDot(cut) THEN cut ELSE cut \o <<".">>
    ELSE short_response

RECURSIVE TrimKeywords(_, _)
TrimKeywords(short_response, k) ==
    IF k > Len(keywords_to_trim) THEN short_response
    ELSE TrimKeywords(TrimKeyword(short_response, keywords_to_trim[k]), k + 1)

\* post-processing that keeps the first sentences and trims no phrase
PostProcessWithoutTrimming(resp) ==
    LET sentences == SplitSentences(resp)
    IN  IF Len(sentences) > SENTENCE_LIMIT
        THEN JoinSentences(TakeFirst(sentences, SENTENCE_LIMIT)) \o <<".">>
        ELSE resp

_post_process_response(resp) ==
    LET sentences == SplitSentences(resp)
        short_response ==
            IF Len(sentences) > SENTENCE_LIMIT
            THEN JoinSentences(TakeFirst(sentences, SENTENCE_LIMIT)) \o <<".">>
            ELSE resp
    IN  TrimKeywords(short_response, 1)

\* one entry of opLog: operation op was given arg, its external call failed or
\* not, and it returned val or raised
Op(name, arg, extFailed, outcome) ==
    [op |-> name, arg |-> arg, extFailed |-> extFailed,
     raised |-> outcome.raised, val |-> outcome.val]

\* one entry of calls: a request of the given kind for the given target
Call(kind, target) == [kind |-> kind, target |-> target]

\* one entry of trace
Step(name, arg, out) == [step |-> name, arg |-> arg, out |-> out]

\* lines 153-161: the sources of the first five source documents
RECURSIVE SourcesOf(_, _)
SourcesOf(docs, store) ==
    IF docs = <<>> THEN <<>>
    ELSE LET metadata == store[Head(docs)].metadata
         IN  << [title |-> Get(metadata, "title", "Unknown"),
                 source |-> Get(metadata, "source", "Unknown"),
                 url |-> Get(metadata, "url", ""),
                 section |-> Get(metadata, "section", ""),
                 type |-> Get(metadata, "type", "text")] >>
             \o SourcesOf(Tail(docs), store)

\* apologies that are the English one in either language
ErrorMessagesInEnglish == [en |-> <<"I'm sorry, I encountered an error">>,
                           hi |-> <<"I'm sorry, I encountered an error">>]

error_messages == [en |-> <<"I'm sorry, I encountered an error">>,
                   hi |-> <<"kshama karen, truti">>]

\* a query whose except branch lets the exception out instead of answering
QueryReraising(question, detectAgain, soFar) ==
    [resp |-> [error |-> "str(e)"],
     raised |-> TRUE,
     trace |-> soFar.trace,
     ops |-> soFar.ops,
     calls |-> soFar.calls]

\* lines 172-192: the except branch of query
QueryFailed(question, detectAgain, soFar) ==
    LET detected_language == detect_language(detectAgain)
    IN  [resp |-> [answer |-> Get(error_messages, detected_language.val, error_messages["en"]),
                   sources |-> <<>>,
                   language |-> detected_language.val,
                   original_question |-> question,
                   english_question |-> question,
                   retrieved_docs |-> 0,
                   error |-> "str(e)"],
         raised |-> FALSE,
         trace |-> soFar.trace \o <<Step("detect_language", question, <<detected_language.val>>)>>,
         ops |-> soFar.ops \o <<Op("detect_language", question, detectAgain = "RAISE", detected_language)>>,
         calls |-> soFar.calls \o <<Call("detect", question)>>]

\* answer steps that post-process the completion first and translate last
AnswerStepsTrimmingFirst(completion, lang, answer) ==
    LET short == _post_process_response(completion)
        back == translate_response(short, lang, answer)
        translating == IF lang = "en" THEN <<>>
                       ELSE <<Step("translate_response", short, back.val)>>
    IN  [answer |-> IF lang = "en" THEN short ELSE back.val,
         trace |-> <<Step("_post_process_response", completion, short)>> \o translating,
         ops |-> IF lang = "en" THEN <<>>
                 ELSE <<Op("translate_response", short, ~answer.ok, back)>>,
         calls |-> IF lang = "en" THEN <<>> ELSE <<Call("translate", short)>>]

\* answer steps that never translate the completion back
AnswerStepsWithoutTranslation(completion, lang, answer) ==
    LET short == _post_process_response(completion)
    IN  [answer |-> short,
         trace |-> <<Step("_post_process_response", completion, short)>>,
         ops |-> <<>>,
         calls |-> <<>>]

\* answer steps that send the completion to the translator in any language
AnswerStepsAlwaysTranslating(completion, lang, answer) ==
    LET back == IF answer.ok THEN Ret(answer.val) ELSE Ret(completion)
        short == _post_process_response(back.val)
    IN  [answer |-> short,
         trace |-> << Step("translate_response", completion, back.val),
                      Step("_post_process_response", back.val, short) >>,
         ops |-> <<Op("translate_response", completion, ~answer.ok, back)>>,
         calls |-> <<Call("translate", completion)>>]

\* lines 139-148: from the completion to the answer.  A question that is not
\* English has its completion translated back; then the response is
\* post-processed.
AnswerSteps(completion, lang, answer) ==
    LET back == translate_response(completion, lang, answer)
        result == IF lang = "en" THEN completion ELSE back.val
        short == _post_process_response(result)
        translating == IF lang = "en" THEN <<>>
                       ELSE <<Step("translate_response", completion, back.val)>>
    IN  [answer |-> short,
         trace |-> translating \o <<Step("_post_process_response", result, short)>>,
         ops |-> IF lang = "en" THEN <<>>
                 ELSE <<Op("translate_response", completion, ~answer.ok, back)>>,
         calls |-> IF lang = "en" THEN <<>> ELSE <<Call("translate", completion)>>]

\* F1RAGChain.query(question).  env holds what each external service answers
\* when asked: detect, detectAgain (langdetect), translateQ, translateA
\* (googletrans), retrieve (the Pinecone retriever), llm (Groq); store is the
\* index the retriever reads.
query(question, env, store) ==
    LET detected_language == detect_language(env.detect)
        lang == detected_language.val
        english_question == translate_to_english(question, lang, env.translateQ)
        chain_query == IF lang = "en" THEN question ELSE english_question.val
        s1 == [trace |-> << Step("detect_language", question, <<lang>>),
                            Step("translate_to_english", question, english_question.val) >>,
               ops |-> << Op("detect_language", question, env.detect = "RAISE", detected_language),
                          Op("translate_to_english", question,
                             lang # "en" /\ ~env.translateQ.ok, english_question) >>,
               calls |-> <<Call("detect", question)>>
                         \o (IF lang # "en" THEN <<Call("translate", question)>> ELSE <<>>)]
        s2 == [trace |-> s1.trace \o <<Step("retrieve", chain_query, env.retrieve.val)>>,
               ops |-> s1.ops,
               calls |-> s1.calls \o <<Call("retrieve", chain_query)>>]
        s3 == [trace |-> s2.trace \o <<Step("llm", chain_query, env.llm.val)>>,
               ops |-> s2.ops,
               calls |-> s2.calls \o <<Call("llm", chain_query)>>]
        final == AnswerSteps(env.llm.val, lang, env.translateA)
        source_docs == env.retrieve.val
    IN  IF ~env.retrieve.ok THEN QueryFailed(question, env.detectAgain, s2)
        ELSE IF ~env.llm.ok THEN QueryFailed(question, env.detectAgain, s3)
        ELSE [resp |-> [answer |-> final.answer,
                        sources |-> SourcesOf(TakeFirst(source_docs, SOURCE_LIMIT), store),
                        language |-> lang,
                        original_question |-> question,
                        english_question |-> english_question.val,
                        retrieved_docs |-> Len(source_docs)],
              raised |-> FALSE,
              trace |-> s3.trace \o final.trace,
              ops |-> s3.ops \o final.ops,
              calls |-> s3.calls \o final.calls]

-----------------------------------------------------------------------------
(* src/data_processing/text_chunker.py *)

\* tiktoken refuses a text that holds a special token: encode raises ValueError
SpecialToken == "<|endoftext|>"
Encodable(text) == ~Contains(text, SpecialToken)

\* _tiktoken_len(text), for a text that can be encoded: one token per word
_tiktoken_len(text) == Len(text)

\* RecursiveCharacterTextSplitter.split_text as configured in __init__: pieces of at
\* most CHUNK_SIZE tokens, each starting CHUNK_OVERLAP tokens before the end of
\* the one before it
RECURSIVE split_text(_)
split_text(text) ==
    IF text = <<>> THEN <<>>
    ELSE IF _tiktoken_len(text) <= CHUNK_SIZE THEN <<text>>
    ELSE <<TakeFirst(text, CHUNK_SIZE)>> \o split_text(DropFirst(text, CHUNK_SIZE - CHUNK_OVERLAP))

\* a document chunk id that counts the chunks from one
DocumentChunkIdFromOne(url, i) == <<url, "_", ToString(i + 1)>>

\* f"{url}_{i}" and the two formats of chunk_wikipedia_sections, as the pieces
\* the format string joins
DocumentChunkId(url, i) == <<url, "_", ToString(i)>>
SummaryChunkId(base_url, i) == <<base_url, "_summary_", ToString(i)>>
SectionChunkId(base_url, section_idx, i) ==
    <<base_url, "_section_", ToString(section_idx), "_", ToString(i)>>

\* a chunk_doc whose chunk_index counts from 1
DocumentChunkCountingFromOne(document, title, chunks, i) ==
    [id |-> DocumentChunkId(Get(document, "url", "unknown"), i),
     content |-> chunks[i + 1],
     metadata |-> [source |-> Get(document, "source", "Unknown"),
                   url |-> Get(document, "url", ""),
                   title |-> title,
                   chunk_index |-> i + 1,
                   total_chunks |-> Len(chunks),
                   type |-> Get(document, "type", "text"),
                   language |-> Get(document, "language", "en"),
                   section |-> Get(document, "section", ""),
                   token_count |-> _tiktoken_len(chunks[i + 1])]]

\* a chunk_doc that labels every chunk with the default source
DocumentChunkOfUnknownSource(document, title, chunks, i) ==
    [id |-> DocumentChunkId(Get(document, "url", "unknown"), i),
     content |-> chunks[i + 1],
     metadata |-> [source |-> "Unknown",
                   url |-> Get(document, "url", ""),
                   title |-> title,
                   chunk_index |-> i,
                   total_chunks |-> Len(chunks),
                   type |-> Get(document, "type", "text"),
                   language |-> Get(document, "language", "en"),
                   section |-> Get(document, "section", ""),
                   token_count |-> _tiktoken_len(chunks[i + 1])]]

\* lines 39-55: the chunk_doc of chunk i (counted from 0) of document
DocumentChunk(document, title, chunks, i) ==
    [id |-> DocumentChunkId(Get(document, "url", "unknown"), i),
     content |-> chunks[i + 1],
     metadata |-> [source |-> Get(document, "source", "Unknown"),
                   url |-> Get(document, "url", ""),
                   title |-> title,
                   chunk_index |-> i,
                   total_chunks |-> Len(chunks),
                   type |-> Get(document, "type", "text"),
                   language |-> Get(document, "language", "en"),
                   section |-> Get(document, "section", ""),
                   token_count |-> _tiktoken_len(chunks[i + 1])]]

\* chunk_document(document): [] when anything in it raises
chunk_document(document) ==
    LET content == Get(document, "content", <<>>)
        title == Get(document, "title", "")
        full_text == <<"Title:", title>> \o content
        chunks == split_text(full_text)
    IN  IF ~Encodable(full_text) THEN <<>>
        ELSE [k \in 1..Len(chunks) |-> DocumentChunk(document, title, chunks, k - 1)]

\* lines 75-90: the chunk_doc of chunk i of the summary
SummaryChunk(wikipedia_doc, title, base_url, summary_chunks, i) ==
    [id |-> SummaryChunkId(base_url, i),
     content |-> summary_chunks[i + 1],
     metadata |-> [source |-> Get(wikipedia_doc, "source", "Wikipedia"),
                   url |-> base_url,
                   title |-> title,
                   chunk_index |-> i,
                   type |-> "encyclopedia_summary",
                   language |-> "en",
                   section |-> "Summary",
                   token_count |-> _tiktoken_len(summary_chunks[i + 1])]]

\* lines 102-117: the chunk_doc of chunk i of section section_idx
SectionChunk(wikipedia_doc, title, base_url, section_idx, section_name, section_chunks, i) ==
    [id |-> SectionChunkId(base_url, section_idx, i),
     content |-> section_chunks[i + 1],
     metadata |-> [source |-> Get(wikipedia_doc, "source", "Wikipedia"),
                   url |-> base_url,
                   title |-> title,
                   chunk_index |-> i,
                   type |-> "encyclopedia_section",
                   language |-> "en",
                   section |-> section_name,
                   token_count |-> _tiktoken_len(section_chunks[i + 1])]]

\* the text the splitter is given for the summary and for one section
SummaryText(title, summary) == <<"Title:", title, "Summary:">> \o summary
SectionText(title, section_name, section_content) ==
    <<"Title:", title, "Section:", section_name>> \o section_content

\* lines 93-117: the chunks of the sections from section_idx on (counted from 0)
RECURSIVE SectionChunks(_, _, _, _)
SectionChunks(wikipedia_doc, title, base_url, section_idx) ==
    LET sections == Get(wikipedia_doc, "sections", <<>>)
    IN  IF section_idx >= Len(sections) THEN <<>>
        ELSE LET section == sections[section_idx + 1]
                 section_name == Get(section, "section", "Section_" \o ToString(section_idx))
                 section_content == Get(section, "content", <<>>)
                 section_chunks == split_text(SectionText(title, section_name, section_content))
                 here == IF Truthy(section_content)
                         THEN [k \in 1..Len(section_chunks) |->
                                  SectionChunk(wikipedia_doc, title, base_url, section_idx,
                                               section_name, section_chunks, k - 1)]
                         ELSE <<>>
             IN  here \o SectionChunks(wikipedia_doc, title, base_url, section_idx + 1)

\* every text chunk_wikipedia_sections hands to the splitter can be encoded
RECURSIVE SectionsEncodable(_)
SectionsEncodable(sections) ==
    IF sections = <<>> THEN TRUE
    ELSE Encodable(Get(Head(sections), "content", <<>>)) /\ SectionsEncodable(Tail(sections))

\* chunking that keeps the chunks made before a section failed
ChunkSectionsKeepingPartial(wikipedia_doc) ==
    LET title == Get(wikipedia_doc, "title", "")
        base_url == Get(wikipedia_doc, "url", "")
        summary == Get(wikipedia_doc, "summary", <<>>)
        summary_chunks == split_text(SummaryText(title, summary))
        summary_docs == IF Truthy(summary) /\ Encodable(summary)
                        THEN [k \in 1..Len(summary_chunks) |->
                                 SummaryChunk(wikipedia_doc, title, base_url, summary_chunks, k - 1)]
                        ELSE <<>>
    IN  IF ~Encodable(summary) \/ ~SectionsEncodable(Get(wikipedia_doc, "sections", <<>>))
        THEN summary_docs
        ELSE summary_docs \o SectionChunks(wikipedia_doc, title, base_url, 0)

\* chunk_wikipedia_sections(wikipedia_doc): [] when anything in it raises
chunk_wikipedia_sections(wikipedia_doc) ==
    LET title == Get(wikipedia_doc, "title", "")
        base_url == Get(wikipedia_doc, "url", "")
        summary == Get(wikipedia_doc, "summary", <<>>)
        summary_chunks == split_text(SummaryText(title, summary))
        summary_docs == IF Truthy(summary)
                        THEN [k \in 1..Len(summary_chunks) |->
                                 SummaryChunk(wikipedia_doc, title, base_url, summary_chunks, k - 1)]
                        ELSE <<>>
    IN  IF ~Encodable(summary) \/ ~SectionsEncodable(Get(wikipedia_doc, "sections", <<>>))
        THEN <<>>
        ELSE summary_docs \o SectionChunks(wikipedia_doc, title, base_url, 0)

\* lines 130-138: the chunks of one document of scraped_data
ChunksOf(doc) ==
    IF Get(doc, "source", "") = "Wikipedia" /\ Truthy(Get(doc, "sections", <<>>))
    THEN chunk_wikipedia_sections(doc)
    ELSE chunk_document(doc)

\* process_scraped_data(scraped_data)
RECURSIVE process_scraped_data(_)
process_scraped_data(data) ==
    IF data = <<>> THEN <<>>
    ELSE ChunksOf(Head(data)) \o process_scraped_data(Tail(data))

-----------------------------------------------------------------------------
(* src/vector_store/pinecone_client.py *)

\* _setup_index(): exists is whether the index is listed; env.list and
\* env.create are whether list_indexes and create_index succeed.  The except
\* branch logs and raises again.
_setup_index(exists, env) ==
    LET listing == Call("list_indexes", "pinecone")
        creating == Call("create_index", "index_name")
    IN  IF ~env.list
        THEN [raised |-> TRUE, val |-> exists, exists |-> exists, created |-> FALSE,
              failed |-> TRUE, calls |-> <<listing>>]
        ELSE IF exists
        THEN [raised |-> FALSE, val |-> exists, exists |-> exists, created |-> FALSE,
              failed |-> FALSE, calls |-> <<listing>>]
        ELSE [raised |-> ~env.create, val |-> env.create, exists |-> env.create,
              created |-> env.create, failed |-> ~env.create, calls |-> <<listing, creating>>]

\* PineconeClient(): __init__ runs _setup_index outside any try
PineconeClient(exists, env) == _setup_index(exists, env)

\* VectorStore.add_texts stores the records of the first n chunks under their ids
RECURSIVE Stored(_, _, _)
Stored(store, chunks, n) ==
    IF n = 0 \/ chunks = <<>> THEN store
    ELSE LET chunk == Head(chunks)
             put == [i \in DOMAIN store \cup {chunk.id} |->
                        IF i = chunk.id
                        THEN [content |-> chunk.content, metadata |-> chunk.metadata]
                        ELSE store[i]]
         IN  Stored(put, Tail(chunks), n - 1)

\* chunk['content'], chunk['metadata'] and chunk['id'] all exist
WellFormed(chunk) == {"content", "metadata", "id"} \subseteq DOMAIN chunk

\* lines 60-68: documents, metadatas and ids, one entry per chunk; the ids
\* the chunker makes are strings, which str() leaves as they are
AddTextsArguments(chunks) ==
    [texts |-> [k \in 1..Len(chunks) |-> chunks[k].content],
     metadatas |-> [k \in 1..Len(chunks) |-> chunks[k].metadata],
     ids |-> [k \in 1..Len(chunks) |-> chunks[k].id]]

\* an upsert that writes the chunks into an emptied index
UpsertReplacingIndex(chunks, store, answer) ==
    IF \E k \in 1..Len(chunks) : ~WellFormed(chunks[k])
    THEN [ret |-> FALSE, store |-> store, calls |-> <<>>, failed |-> FALSE, args |-> <<>>]
    ELSE [ret |-> answer.ok,
          store |-> Stored(<<>>, chunks,
                           IF answer.ok THEN Len(chunks) ELSE Min(answer.written, Len(chunks))),
          calls |-> <<Call("add_texts", "index_name")>>,
          failed |-> ~answer.ok,
          args |-> <<AddTextsArguments(chunks)>>]

\* an upsert that uploads once more when add_texts has raised
UpsertTryingAgain(chunks, store, answer) ==
    IF \E k \in 1..Len(chunks) : ~WellFormed(chunks[k])
    THEN [ret |-> FALSE, store |-> store, calls |-> <<>>, failed |-> FALSE, args |-> <<>>]
    ELSE [ret |-> TRUE,
          store |-> Stored(store, chunks, Len(chunks)),
          calls |-> IF answer.ok THEN <<Call("add_texts", "index_name")>>
                    ELSE <<Call("add_texts", "index_name"), Call("add_texts", "index_name")>>,
          failed |-> ~answer.ok,
          args |-> <<AddTextsArguments(chunks)>>]

\* upsert_chunks(chunks): True, or False when anything raised.  answer is what
\* add_texts does: it stores every text, or fails having stored the first
\* answer.written of them
upsert_chunks(chunks, store, answer) ==
    IF \E k \in 1..Len(chunks) : ~WellFormed(chunks[k])
    THEN [ret |-> FALSE, store |-> store, calls |-> <<>>, failed |-> FALSE, args |-> <<>>]
    ELSE [ret |-> answer.ok,
          store |-> Stored(store, chunks,
                           IF answer.ok THEN Len(chunks) ELSE Min(answer.written, Len(chunks))),
          calls |-> <<Call("add_texts", "index_name")>>,
          failed |-> ~answer.ok,
          args |-> <<AddTextsArguments(chunks)>>]

\* lines 88-94: the formatted results of search
RECURSIVE FormattedResults(_, _)
FormattedResults(ids, store) ==
    IF ids = <<>> THEN <<>>
    ELSE << [content |-> store[Head(ids)].content,
             metadata |-> store[Head(ids)].metadata] >> \o FormattedResults(Tail(ids), store)

\* a search that lets the failure of the similarity search out
SearchRaising(q, store, answer) ==
    IF answer.ok THEN Ret(FormattedResults(answer.val, store)) ELSE Raised

\* search(query, k): answer is what similarity_search_with_score does
search(q, store, answer) ==
    IF answer.ok THEN Ret(FormattedResults(answer.val, store)) ELSE Ret(<<>>)

-----------------------------------------------------------------------------
(* src/scrapers/wikipedia_scraper.py *)

get_f1_related_pages ==
    << "Formula One", "Formula One drivers", "Formula One constructors",
       "2024 Formula One World Championship",
       "List of Formula One World Drivers' Champions", "List of Formula One circuits",
       "Formula One regulations", "Formula One car", "Max Verstappen", "Lewis Hamilton",
       "Charles Leclerc", "Lando Norris", "Oscar Piastri", "Red Bull Racing",
       "Mercedes-AMG Petronas Formula One Team", "Scuderia Ferrari", "McLaren",
       "Monaco Grand Prix", "British Grand Prix", "Italian Grand Prix",
       "Formula One safety", "DRS (Formula One)", "Energy Recovery System", "Turbo-hybrid" >>

\* line.startswith('=') and line.strip('= '); a heading's text is one token
IsHeading(line) == line # <<>> /\ Head(line) = "="
RECURSIVE StripHeading(_)
StripHeading(line) ==
    IF line # <<>> /\ Head(line) \in {"=", " "} THEN StripHeading(Tail(line))
    ELSE IF line # <<>> /\ line[Len(line)] \in {"=", " "}
         THEN StripHeading(SubSeq(line, 1, Len(line) - 1))
    ELSE line
HeadingText(line) == IF StripHeading(line) = <<>> THEN "" ELSE StripHeading(line)[1]

\* lines 61-85: the sections of a page's content, from its lines
RECURSIVE ParseSections(_, _, _, _)
ParseSections(lines, current_section, current_content, sections) ==
    IF lines = <<>>
    THEN IF Truthy(current_content) /\ current_section # ""
         THEN Append(sections, [section |-> current_section, content |-> Strip(current_content)])
         ELSE sections
    ELSE LET line == Head(lines)
         IN  IF Truthy(Strip(line)) /\ ~IsHeading(line)
             THEN ParseSections(Tail(lines), current_section,
                                current_content \o line \o <<" ">>, sections)
             ELSE IF IsHeading(line) /\ Truthy(current_content)
             THEN ParseSections(Tail(lines), HeadingText(line), <<>>,
                                IF current_section # ""
                                THEN Append(sections, [section |-> current_section,
                                                       content |-> Strip(current_content)])
                                ELSE sections)
             ELSE ParseSections(Tail(lines), current_section, current_content, sections)

\* page.content: the lines joined by newlines
RECURSIVE JoinLines(_)
JoinLines(lines) ==
    IF lines = <<>> THEN <<>>
    ELSE IF Len(lines) = 1 THEN lines[1]
    ELSE lines[1] \o <<"\n">> \o JoinLines(Tail(lines))

\* lines 51-85: content_data of a page
ContentData(page) ==
    [title |-> page.title,
     content |-> JoinLines(page.lines),
     url |-> page.url,
     summary |-> page.summary,
     source |-> "Wikipedia",
     type |-> "encyclopedia",
     language |-> "en",
     sections |-> ParseSections(page.lines, "", <<>>, <<>>)]

\* what wikipedia.page(title) can answer
PageAnswer(page) == [kind |-> "page", page |-> page, options |-> <<>>]
Disambiguation(options) == [kind |-> "disambiguation", page |-> <<>>, options |-> options]
PageError == [kind |-> "error", page |-> <<>>, options |-> <<>>]

None == [none |-> TRUE]

\* scrape_page_content(page_title).  answers are the answers of wikipedia.page
\* to the lookups still to come, in order.  The result holds the document or
\* None, the lookups made, the answers left, and finished: whether the call
\* returned with the answers it was given.
RECURSIVE scrape_page_content(_, _)
scrape_page_content(page_title, answers) ==
    LET look == Call("wikipedia.page", page_title)
    IN  IF answers = <<>>
        THEN [doc |-> None, calls |-> <<>>, rest |-> <<>>, finished |-> FALSE]
        ELSE LET first == Head(answers)
             IN  IF first.kind = "page"
                 THEN [doc |-> ContentData(first.page), calls |-> <<look>>,
                       rest |-> Tail(answers), finished |-> TRUE]
                 ELSE IF first.kind = "error"
                 THEN [doc |-> None, calls |-> <<look>>, rest |-> Tail(answers), finished |-> TRUE]
                 ELSE IF first.options = <<>>
                 THEN [doc |-> None, calls |-> <<look>>, rest |-> Tail(answers), finished |-> TRUE]
                 ELSE LET option == first.options[1]
                          again == Call("wikipedia.page", option)
                          after == Tail(answers)
                      IN  IF after = <<>>
                          THEN [doc |-> None, calls |-> <<look>>, rest |-> <<>>, finished |-> FALSE]
                          ELSE IF Head(after).kind # "page"
                          THEN [doc |-> None, calls |-> <<look, again>>,
                                rest |-> Tail(after), finished |-> TRUE]
                          ELSE LET inner == scrape_page_content(option, Tail(after))
                               IN  [doc |-> inner.doc,
                                    calls |-> <<look, again>> \o inner.calls,
                                    rest |-> inner.rest,
                                    finished |-> inner.finished]

\* scrape_all_f1_content(), over the page titles f1_pages
RECURSIVE scrape_all_f1_content(_, _)
scrape_all_f1_content(f1_pages, answers) ==
    IF f1_pages = <<>>
    THEN [docs |-> <<>>, calls |-> <<>>, ops |-> <<>>, rest |-> answers, finished |-> TRUE]
    ELSE LET content == scrape_page_content(Head(f1_pages), answers)
             others == scrape_all_f1_content(Tail(f1_pages), content.rest)
             lookups == Len(content.calls)
             failed == \/ \E k \in 1..lookups : answers[k].kind = "error"
                       \/ lookups > 0 /\ answers[lookups].kind = "disambiguation"
         IN  [docs |-> (IF content.doc # None THEN <<content.doc>> ELSE <<>>) \o others.docs,
              calls |-> content.calls \o others.calls,
              ops |-> <<Op("scrape_page_content", Head(f1_pages), failed, Ret(content.doc))>>
                      \o others.ops,
              rest |-> others.rest,
              finished |-> content.finished /\ others.finished]

-----------------------------------------------------------------------------
(* src/scrapers/f1_official_scraper.py *)

urls == <<"https://www.formula1.com/en/latest", "https://www.formula1.com/en/latest/all.html">>
selectors == <<".f1-latest-listing--item", ".listing-item", ".news-item", "article", ".card">>
ELEMENT_LIMIT == 10

get_sample_news ==
    << [title |-> "Formula 1 Latest News Update", description |-> <<"Stay updated">>,
        url |-> "https://www.formula1.com", source |-> "F1 Official (Sample)"],
       [title |-> "F1 Championship Update", description |-> <<"Current standings">>,
        url |-> "https://www.formula1.com", source |-> "F1 Official (Sample)"] >>

\* lines 70-97: the articles of the elements one selector found
RECURSIVE ArticlesOf(_, _)
ArticlesOf(elements, url) ==
    IF elements = <<>> THEN <<>>
    ELSE LET element == Head(elements)
             article == [title |-> element.title,
                         description |-> IF Truthy(element.desc) THEN element.desc
                                         ELSE <<element.title>>,
                         url |-> IF element.link # "" THEN element.link ELSE url,
                         source |-> "F1 Official"]
         IN  (IF element.title # "" THEN <<article>> ELSE <<>>) \o ArticlesOf(Tail(elements), url)

\* lines 60-104: the loop over selectors from selector k on; found[k] holds the
\* elements selector k finds on the page, none when the wait times out
RECURSIVE TrySelectors(_, _, _, _)
TrySelectors(found, k, url, articles) ==
    IF k > Len(selectors) THEN <<>>
    ELSE LET elements == IF k <= Len(found) THEN found[k] ELSE <<>>
             more == articles \o ArticlesOf(TakeFirst(elements, ELEMENT_LIMIT), url)
         IN  IF Truthy(elements) /\ Truthy(more) THEN more
             ELSE TrySelectors(found, k + 1, url, more)

\* lines 39-108: the loop over urls from url k on; pages[k] is what driver.get
\* and the waits do for url k
RECURSIVE TryUrls(_, _)
TryUrls(k, pages) ==
    IF k > Len(urls) THEN [news |-> get_sample_news, calls |-> <<>>, failed |-> FALSE]
    ELSE LET fetch == Call("driver.get", urls[k])
             articles == IF pages[k].ok THEN TrySelectors(pages[k].val, 1, urls[k], <<>>) ELSE <<>>
             later == TryUrls(k + 1, pages)
         IN  IF Truthy(articles)
             THEN [news |-> articles, calls |-> <<fetch>>, failed |-> FALSE]
             ELSE [news |-> later.news, calls |-> <<fetch>> \o later.calls,
                   failed |-> ~pages[k].ok \/ later.failed]

\* scrape_news(): env.browser is whether init_browser succeeds
scrape_news(env) ==
    IF ~env.browser
    THEN [news |-> get_sample_news, calls |-> <<>>, failed |-> TRUE, driver |-> FALSE]
    ELSE LET tried == TryUrls(1, env.pages)
         IN  [news |-> tried.news,
              calls |-> tried.calls \o <<Call("driver.quit", "driver")>>,
              failed |-> tried.failed,
              driver |-> TRUE]

\* run_f1_official_scraper(): scrape_news, then close()
run_f1_official_scraper(env) ==
    LET scraped == scrape_news(env)
    IN  [news |-> scraped.news,
         calls |-> scraped.calls \o (IF scraped.driver THEN <<Call("driver.quit", "driver")>> ELSE <<>>),
         ops |-> <<Op("scrape_news", "formula1.com", scraped.failed, Ret(scraped.news))>>]

-----------------------------------------------------------------------------
(* src/scrapers/openf1_client.py *)

LATEST_RACES == 5

\* get_sessions, get_drivers, get_meetings, get_race_results: the JSON of the
\* response, or [] when the request fails
get_sessions(answer) == IF answer.ok THEN Ret(answer.val) ELSE Ret(<<>>)
get_drivers(answer) == IF answer.ok THEN Ret(answer.val) ELSE Ret(<<>>)
get_meetings(answer) == IF answer.ok THEN Ret(answer.val) ELSE Ret(<<>>)
get_race_results(answer) == IF answer.ok THEN Ret(answer.val) ELSE Ret(<<>>)

\* sorted(race_sessions, key=date_start, reverse=True): stable, latest first
RECURSIVE SortedLatestFirst(_)
SortedLatestFirst(sessions) ==
    IF sessions = <<>> THEN <<>>
    ELSE LET rest == SortedLatestFirst(Tail(sessions))
             s == Head(sessions)
             before == {k \in 1..Len(rest) : rest[k].date_start > s.date_start}
         IN  SubSeq(rest, 1, Cardinality(before)) \o <<s>>
             \o SubSeq(rest, Cardinality(before) + 1, Len(rest))

RECURSIVE RaceSessions(_)
RaceSessions(sessions) ==
    IF sessions = <<>> THEN <<>>
    ELSE (IF Head(sessions).session_type = "Race" THEN <<Head(sessions)>> ELSE <<>>)
         \o RaceSessions(Tail(sessions))

\* lines 139-144: the results of the latest races, asked for one by one;
\* answers[k] answers the k-th request
RECURSIVE LatestResults(_, _)
LatestResults(latest_races, answers) ==
    IF latest_races = <<>> THEN [results |-> <<>>, calls |-> <<>>, ops |-> <<>>]
    ELSE LET session_key == Head(latest_races).session_key
             asked == session_key # 0
             results == get_race_results(Head(answers))
             later == LatestResults(Tail(latest_races), IF asked THEN Tail(answers) ELSE answers)
         IN  IF asked
             THEN [results |-> results.val \o later.results,
                   calls |-> <<Call("requests.get results", session_key)>> \o later.calls,
                   ops |-> <<Op("get_race_results", session_key, ~Head(answers).ok, results)>>
                           \o later.ops]
             ELSE later

\* get_comprehensive_f1_data()
get_comprehensive_f1_data(env) ==
    LET sessions == get_sessions(env.sessions)
        drivers == get_drivers(env.drivers)
        meetings == get_meetings(env.meetings)
        latest_races == TakeFirst(SortedLatestFirst(RaceSessions(sessions.val)), LATEST_RACES)
        races == LatestResults(latest_races, env.results)
    IN  [data |-> [sessions |-> sessions.val, drivers |-> drivers.val,
                   meetings |-> meetings.val, race_results |-> races.results,
                   source |-> "OpenF1 API"],
         calls |-> << Call("requests.get sessions", 2025), Call("requests.get drivers", 0),
                      Call("requests.get meetings", 2025) >> \o races.calls,
         ops |-> << Op("get_sessions", 2025, ~env.sessions.ok, sessions),
                    Op("get_drivers", 0, ~env.drivers.ok, drivers),
                    Op("get_meetings", 2025, ~env.meetings.ok, meetings) >> \o races.ops]

-----------------------------------------------------------------------------
(* src/app.py *)

Json(status, body) == [status |-> status, body |-> body]

\* chat(): body is request.get_json(), None for a body that is JSON null
chat(body, env, store) ==
    IF body = None
    THEN [response |-> Json(500, [error |-> "An error occurred while processing your question"]),
          trace |-> <<>>, ops |-> <<>>, calls |-> <<>>]
    ELSE LET user_question == Strip(Get(body, "message", <<>>))
             answered == query(user_question, env, store)
         IN  IF ~Truthy(user_question)
             THEN [response |-> Json(400, [error |-> "Please provide a question about Formula 1"]),
                   trace |-> <<>>, ops |-> <<>>, calls |-> <<>>]
             ELSE IF answered.raised
             THEN [response |-> Json(500, [error |-> "An error occurred while processing your question"]),
                   trace |-> answered.trace, ops |-> answered.ops, calls |-> answered.calls]
             ELSE [response |-> Json(200, answered.resp),
                   trace |-> answered.trace,
                   ops |-> answered.ops \o <<Op("query", user_question,
                                                ~env.retrieve.ok \/ ~env.llm.ok, Ret(answered.resp))>>,
                   calls |-> answered.calls]

\* lines 123-131: the documents of the official site's articles
RECURSIVE OfficialDocuments(_)
OfficialDocuments(news) ==
    IF news = <<>> THEN <<>>
    ELSE LET article == Head(news)
         IN  << [title |-> article.title,
                 content |-> <<article.title, ".", " ">> \o article.description,
                 url |-> article.url,
                 source |-> "F1 Official",
                 type |-> "news",
                 language |-> "en"] >> \o OfficialDocuments(Tail(news))

\* lines 140-142: one line of driver_content per driver
RECURSIVE DriverLines(_)
DriverLines(drivers) ==
    IF drivers = <<>> THEN <<>>
    ELSE << Get(Head(drivers), "full_name", "Unknown"), "-", "Team:",
            Get(Head(drivers), "team_name", "Unknown"), "\n" >> \o DriverLines(Tail(drivers))

\* lines 139-151: the document of the OpenF1 drivers, when there are any
DriverDocuments(openf1_data) ==
    IF Truthy(Get(openf1_data, "drivers", <<>>))
    THEN << [title |-> "F1 Drivers Database 2025",
             content |-> <<"Current", "F1", "Drivers:", "\n">> \o DriverLines(openf1_data.drivers),
             url |-> "https://api.openf1.org",
             source |-> "OpenF1 API",
             type |-> "data",
             language |-> "en"] >>
    ELSE <<>>

\* scrape_and_update().  env.setup, env.wiki, env.official, env.openf1 and
\* env.upsert are what the services answer; exists and store are the index as
\* the request finds it.
scrape_and_update(env, exists, store) ==
    LET client == PineconeClient(exists, env.setup)
        wiki == scrape_all_f1_content(TakeFirst(get_f1_related_pages, MaxTopics), env.wiki)
        official == run_f1_official_scraper(env.official)
        openf1 == get_comprehensive_f1_data(env.openf1)
        all_scraped_data == wiki.docs \o OfficialDocuments(official.news)
                            \o DriverDocuments(openf1.data)
        chunked_data == process_scraped_data(all_scraped_data)
        upserted == upsert_chunks(chunked_data, store, env.upsert)
        scraped == client.calls \o wiki.calls \o official.calls \o openf1.calls
        setup == Op("_setup_index", "index_name", client.failed, client)
        ran == <<setup>> \o wiki.ops \o official.ops \o openf1.ops
               \o <<Op("upsert_chunks", "index_name", upserted.failed, Ret(upserted.ret))>>
    IN  IF client.raised
        THEN [response |-> Json(500, [error |-> "Scraping failed"]),
              exists |-> client.exists, store |-> store,
              ops |-> <<setup>>, calls |-> client.calls, finished |-> TRUE,
              data |-> <<>>, chunks |-> <<>>]
        ELSE [response |-> IF upserted.ret
                           THEN Json(200, [message |-> "Successfully updated F1 knowledge base",
                                           scraped_documents |-> Len(all_scraped_data),
                                           created_chunks |-> Len(chunked_data),
                                           sources |-> <<"Wikipedia", "F1 Official", "OpenF1 API">>])
                           ELSE Json(500, [error |-> "Failed to update vector store"]),
              exists |-> client.exists, store |-> upserted.store,
              ops |-> ran, calls |-> scraped \o upserted.calls, finished |-> wiki.finished,
              data |-> all_scraped_data, chunks |-> chunked_data]

\* lines 199-209: processed_articles
RECURSIVE ProcessedArticles(_)
ProcessedArticles(articles) ==
    IF articles = <<>> THEN <<>>
    ELSE LET article == Head(articles)
         IN  << [title |-> Get(article, "title", ""),
                 content |-> Get(article, "content", <<>>),
                 url |-> Get(article, "url", ""),
                 source |-> Get(article, "source", "Motorsport.com"),
                 type |-> Get(article, "type", "news"),
                 language |-> "en",
                 year |-> ToString(Get(article, "year", 2025)),
                 scraped_at |-> Get(article, "scraped_at", "")] >>
             \o ProcessedArticles(Tail(articles))

\* an answer that reports success whatever the upsert returned
BulkAnswerAlwaysOk(success, processed_articles, chunks) ==
    Json(200, [message |-> "Bulk data processed successfully",
               articles_processed |-> Len(processed_articles),
               chunks_created |-> Len(chunks)])

\* lines 217-224: the answer of bulk_add_data once upsert_chunks has returned
BulkAnswer(success, processed_articles, chunks) ==
    IF success
    THEN Json(200, [message |-> "Bulk data processed successfully",
                    articles_processed |-> Len(processed_articles),
                    chunks_created |-> Len(chunks)])
    ELSE Json(500, [error |-> "Failed to upload to vector database"])

\* bulk_add_data(): body is request.get_json()
bulk_add_data(body, env, exists, store) ==
    LET articles == Get(body, "articles", <<>>)
        client == PineconeClient(exists, env.setup)
        processed_articles == ProcessedArticles(articles)
        chunks == process_scraped_data(processed_articles)
        upserted == upsert_chunks(chunks, store, env.upsert)
        setup == Op("_setup_index", "index_name", client.failed, client)
        untouched == [exists |-> exists, store |-> store, ops |-> <<>>, calls |-> <<>>,
                      data |-> <<>>, chunks |-> <<>>]
    IN  IF body = None
        THEN [response |-> Json(500, [error |-> "str(e)"])] @@ untouched
        ELSE IF ~Truthy(articles)
        THEN [response |-> Json(400, [error |-> "No articles provided"])] @@ untouched
        ELSE IF client.raised
        THEN [response |-> Json(500, [error |-> "str(e)"]),
              exists |-> client.exists, store |-> store,
              ops |-> <<setup>>, calls |-> client.calls, data |-> <<>>, chunks |-> <<>>]
        ELSE [response |-> BulkAnswer(upserted.ret, processed_articles, chunks),
              exists |-> client.exists, store |-> upserted.store,
              ops |-> <<setup, Op("upsert_chunks", "index_name", upserted.failed, Ret(upserted.ret))>>,
              calls |-> client.calls \o upserted.calls,
              data |-> processed_articles, chunks |-> chunks]

\* Config.SUPPORTED_LANGUAGES
SUPPORTED_LANGUAGES == <<"en", "hi">>

\* line 10, import datetime: the name datetime is the module, and these are
\* the attributes of the module
datetime == {"MINYEAR", "MAXYEAR", "UTC", "date", "datetime", "time", "timedelta",
             "timezone", "tzinfo"}

\* health(): now is what the clock reads.  datetime.now() looks the
\* attribute now up on the module; a missing attribute raises AttributeError
health(now) ==
    LET timestamp == IF "now" \in datetime THEN Ret(now) ELSE Raised
    IN  IF timestamp.raised
        THEN Json(500, [status |-> "unhealthy", error |-> "str(e)"])
        ELSE Json(200, [status |-> "healthy",
                        supported_languages |-> SUPPORTED_LANGUAGES,
                        timestamp |-> timestamp.val])

-----------------------------------------------------------------------------
(* The environment: what the requests carry and what the services answer *)

\* bodies of POST /chat
Question == <<"who", " ", "won">>
ChatBodies ==
    { None, [session |-> "s"], [message |-> <<>>], [message |-> <<" ">>],
      [message |-> <<" ">> \o Question \o <<" ">>] }

\* completions of the LLM
ShortAnswer == <<"Max", " ", "won", ".">>
LongAnswer == <<"a", ".", " ", "b", ".", " ", "c", ".", " ", "d", ".", " ", "e", ".">>
WordyAnswer == <<"a", ".", " ", "Additionally,", " ", "b", ".">>
LLMAnswers == {Failure, Success(ShortAnswer), Success(LongAnswer), Success(WordyAnswer)}

\* translations
EnglishQuestion == <<"who", " ", "won", "?">>
HindiShort == <<"maiks", " ", "jeeta">>
HindiLong == <<"ka", ".", " ", "kha", ".", " ", "ga", ".", " ", "gha", ".", " ", "Furthermore,">>
TranslateQAnswers == {Failure, Success(EnglishQuestion)}
TranslateAAnswers == {Failure, Success(HindiShort), Success(HindiLong)}

\* sequences over S of length at most n
SeqsUpTo(S, n) == UNION {[1..k -> S] : k \in 0..n}

\* the records of the index in the order the retriever ranks them
RECURSIVE Ranked(_)
Ranked(ids) ==
    IF ids = {} THEN <<>>
    ELSE LET top == CHOOSE i \in ids : TRUE IN <<top>> \o Ranked(ids \ {top})

\* the retriever: a failure, or the records it ranks first, at most
\* MaxRetrieved (and TOP_K) of them
RetrieveAnswers(exists, store) ==
    {Failure} \cup
    (IF exists
     THEN {Success(TakeFirst(Ranked(DOMAIN store), k)) : k \in 0..Min(MaxRetrieved, TOP_K)}
     ELSE {})

\* the answers query can get for one question: a service it never asks gives
\* no answer
ChatEnvs(exists, store) ==
    UNION { UNION { UNION {
        LET english == detect_language(d).val = "en"
            failed == ~r.ok \/ ~l.ok
        IN  {[detect |-> d, detectAgain |-> a, translateQ |-> q, translateA |-> t,
              retrieve |-> r, llm |-> l] :
                a \in IF failed THEN DetectAnswers ELSE {"RAISE"},
                q \in IF english THEN {Failure} ELSE TranslateQAnswers,
                t \in IF english \/ failed THEN {Failure} ELSE TranslateAAnswers}
        : l \in IF r.ok THEN LLMAnswers ELSE {Failure} }
        : r \in RetrieveAnswers(exists, store) }
        : d \in DetectAnswers }

\* Pinecone's control plane
SetupEnvs == [list : BOOLEAN, create : BOOLEAN]

\* add_texts
AddTextsAnswers ==
    {[ok |-> TRUE, written |-> 0], [ok |-> FALSE, written |-> 0], [ok |-> FALSE, written |-> 1]}

\* Wikipedia pages
PageA == [title |-> "Formula One", url |-> "wiki/Formula_One", summary |-> <<"Racing">>,
          lines |-> << <<"Lead">>, <<"=", "=", " ", "History", " ", "=", "=">>, <<"Began">>, <<>> >>]
PageB == [title |-> "McLaren", url |-> "wiki/McLaren", summary |-> <<"Team">>,
          lines |-> << <<"Woking", "team">> >>]
WikiAnswers ==
    {PageAnswer(PageA), PageAnswer(PageB), PageError, Disambiguation(<<"McLaren">>)}
ServiceWikiAnswers == {PageAnswer(PageA), PageError, Disambiguation(<<"McLaren">>)}

\* the most lookups one run over the page titles may take in the model
MaxLookups == 3

\* the answers to a run of lookups that finishes having used them all
WikiRuns(pages, given) ==
    {answers \in SeqsUpTo(given, MaxLookups) :
        LET run == scrape_all_f1_content(pages, answers)
        IN  run.finished /\ run.rest = <<>>}

\* formula1.com through the browser
NewsElement == [title |-> "Verstappen wins", link |-> "f1/verstappen-wins", desc |-> <<"He won">>]
BareElement == [title |-> "", link |-> "", desc |-> <<>>]
PageResults ==
    {Failure, Success(<<>>), Success(<< <<>>, <<NewsElement>> >>), Success(<< <<BareElement>> >>)}
OfficialEnvs ==
    {env \in [browser : BOOLEAN, pages : [1..Len(urls) -> PageResults]] :
        ~env.browser => \A k \in 1..Len(urls) : env.pages[k] = Failure}

\* api.openf1.org
Driver == [full_name |-> "Max Verstappen", team_name |-> "Red Bull Racing"]
Race == [session_type |-> "Race", session_key |-> 9001, date_start |-> 3]
Practice == [session_type |-> "Practice", session_key |-> 9000, date_start |-> 1]
OpenF1Envs ==
    {env \in [sessions : {Failure, Success(<<Practice, Race>>)},
              drivers : {Failure, Success(<<>>), Success(<<Driver>>)},
              meetings : {Failure, Success(<<"Monaco">>)},
              results : {<<Failure>>, <<Success(<<"P1">>)>>}] :
        ~env.sessions.ok => env.results = <<Failure>>}

\* what the service's own ingestion sees of the official site and of OpenF1
ServiceOfficialEnvs ==
    { [browser |-> FALSE, pages |-> [k \in 1..Len(urls) |-> Failure]],
      [browser |-> TRUE, pages |-> [k \in 1..Len(urls) |-> Success(<<>>)]],
      [browser |-> TRUE, pages |-> [k \in 1..Len(urls) |->
                                      IF k = 1 THEN Failure ELSE Success(<< <<>>, <<NewsElement>> >>)]] }
ServiceOpenF1Envs ==
    {env \in OpenF1Envs : env.sessions.ok /\ env.meetings.ok /\ env.results[1].ok
                          /\ env.drivers # Success(<<>>)}
ServiceWikiRuns(pages) == WikiRuns(pages, ServiceWikiAnswers)
\* whether create_index succeeds matters only when the index is not listed
ServiceSetupEnvs(exists) == {env \in SetupEnvs : exists \/ ~env.list => env.create}

\* the body carries a question
HasQuestion(body) == body # None /\ Truthy(Strip(Get(body, "message", <<>>)))
NoAnswers == [detect |-> "RAISE", detectAgain |-> "RAISE", translateQ |-> Failure,
              translateA |-> Failure, retrieve |-> Failure, llm |-> Failure]

\* bodies of POST /admin/bulk-add-data
FullArticle == [title |-> "Norris on pole", content |-> <<"Norris", "took", "pole">>,
                url |-> "motorsport/norris-pole", source |-> "Motorsport.com", year |-> 2024]
BareArticle == [content |-> <<"Note">>]
PoisonArticle == [title |-> "Raw dump", content |-> <<"text", SpecialToken>>, url |-> "motorsport/raw"]
BulkBodies ==
    { None, [session |-> "s"], [articles |-> <<>>], [articles |-> <<FullArticle>>],
      [articles |-> <<BareArticle>>], [articles |-> <<PoisonArticle, FullArticle>>],
      [articles |-> <<BareArticle, BareArticle>>] }

-----------------------------------------------------------------------------
(* The web service: every request is handled in one step and then answered *)

f1_pages == TakeFirst(get_f1_related_pages, MaxTopics)

Idle == response = None

Init ==
    /\ indexExists \in BOOLEAN
    /\ index = <<>>
    /\ response = None
    /\ request = None
    /\ trace = <<>>
    /\ opLog = <<>>
    /\ calls = <<>>
    /\ scraped_data = <<>>
    /\ all_chunks = <<>>
    /\ workers = <<>>

\* a chat handler that builds a PineconeClient of its own for every request
ChatSettingUpIndex(body, env) ==
    /\ Idle
    /\ LET handled == chat(body, env, index)
           client == PineconeClient(indexExists, [list |-> TRUE, create |-> TRUE])
       IN  /\ response' = handled.response
           /\ trace' = handled.trace
           /\ opLog' = handled.ops
           /\ calls' = handled.calls \o client.calls
           /\ indexExists' = client.exists
    /\ request' = [endpoint |-> "/chat", body |-> body]
    /\ UNCHANGED <<index, scraped_data, all_chunks>>

\* POST /chat
Chat(body, env) ==
    /\ Idle
    /\ \E handled \in {chat(body, env, index)} :
           /\ response' = handled.response
           /\ trace' = handled.trace
           /\ opLog' = handled.ops
           /\ calls' = handled.calls
    /\ request' = [endpoint |-> "/chat", body |-> body]
    /\ UNCHANGED <<indexExists, index, scraped_data, all_chunks>>

\* POST /scrape-and-update
ScrapeAndUpdate(env) ==
    /\ Idle
    /\ \E handled \in {scrape_and_update(env, indexExists, index)} :
           /\ response' = handled.response
           /\ indexExists' = handled.exists
           /\ index' = handled.store
           /\ opLog' = handled.ops
           /\ calls' = handled.calls
           /\ scraped_data' = handled.data
           /\ all_chunks' = handled.chunks
    /\ request' = [endpoint |-> "/scrape-and-update", body |-> None]
    /\ UNCHANGED trace

\* POST /admin/bulk-add-data
BulkAddData(body, env) ==
    /\ Idle
    /\ \E handled \in {bulk_add_data(body, env, indexExists, index)} :
           /\ response' = handled.response
           /\ indexExists' = handled.exists
           /\ index' = handled.store
           /\ opLog' = handled.ops
           /\ calls' = handled.calls
           /\ scraped_data' = handled.data
           /\ all_chunks' = handled.chunks
    /\ request' = [endpoint |-> "/admin/bulk-add-data", body |-> body]
    /\ UNCHANGED trace

\* GET /health
Health(now) ==
    /\ Idle
    /\ response' = health(now)
    /\ request' = [endpoint |-> "/health", body |-> None]
    /\ UNCHANGED <<indexExists, index, trace, opLog, calls, scraped_data, all_chunks>>

\* the response goes out and the service waits for the next request
Respond ==
    /\ ~Idle
    /\ response' = None
    /\ request' = None
    /\ trace' = <<>>
    /\ opLog' = <<>>
    /\ calls' = <<>>
    /\ scraped_data' = <<>>
    /\ all_chunks' = <<>>
    /\ UNCHANGED <<indexExists, index, workers>>

ChatRequest ==
    Idle /\ UNCHANGED workers /\ \E body \in ChatBodies :
               \E env \in IF HasQuestion(body) THEN ChatEnvs(indexExists, index) ELSE {NoAnswers} :
                  Chat(body, env)

ScrapeRequest ==
    Idle /\ UNCHANGED workers /\ \E env \in [setup : ServiceSetupEnvs(indexExists), wiki : ServiceWikiRuns(f1_pages),
                        official : ServiceOfficialEnvs, openf1 : ServiceOpenF1Envs,
                        upsert : AddTextsAnswers] : ScrapeAndUpdate(env)

BulkRequest ==
    Idle /\ UNCHANGED workers /\ \E body \in BulkBodies :
               \E env \in [setup : ServiceSetupEnvs(indexExists), upsert : AddTextsAnswers] :
               BulkAddData(body, env)

\* what the clock reads when /health is asked
Timestamps == {<<"2025-06-01T12:00:00">>, <<"2025-06-01T12:00:01">>}

HealthRequest ==
    Idle /\ UNCHANGED workers /\ \E now \in Timestamps : Health(now)

Next == ChatRequest \/ ScrapeRequest \/ BulkRequest \/ HealthRequest \/ Respond

Spec == Init /\ [][Next]_vars

-----------------------------------------------------------------------------
(* Properties of the web service *)

\* the request being answered is a /chat request that carries a question
ChatWithQuestion ==
    /\ request # None
    /\ request.endpoint = "/chat"
    /\ HasQuestion(request.body)

\* the /chat request being answered went through the whole pipeline
ChatSucceeded ==
    /\ ChatWithQuestion
    /\ response.status = 200
    /\ "error" \notin DOMAIN response.body

StepNames == [k \in 1..Len(trace) |-> trace[k].step]

\* C1: whatever the external services do, the response to a /chat request with
\* a non-empty message carries an answer, a list of sources and a language.
C1_ChatAlwaysAnswers ==
    ChatWithQuestion =>
        /\ {"answer", "sources", "language"} \subseteq DOMAIN response.body
        /\ response.body.language \in {"en", "hi"}

\* a question whose retrieval or completion failed was still answered in full
C1_Witness ==
    /\ ChatWithQuestion
    /\ "error" \in DOMAIN response.body
    /\ {"answer", "sources", "language"} \subseteq DOMAIN response.body
    /\ response.body.sources = <<>>

\* C2: in a successful run the steps are, in this order, language detection,
\* translation of the question, retrieval, completion, translation back (for
\* a question that is not English) and post-processing; post-processing is
\* the last step, it is given the translated-back text, and what it returns
\* is the answer.
C2_PipelineOrder ==
    ChatSucceeded =>
        /\ StepNames = <<"detect_language", "translate_to_english", "retrieve", "llm">>
                       \o (IF response.body.language = "en" THEN <<>>
                           ELSE <<"translate_response">>)
                       \o <<"_post_process_response">>
        /\ trace[Len(trace)].arg = trace[Len(trace) - 1].out
        /\ response.body.answer = trace[Len(trace)].out

\* a Hindi question whose translated-back answer was then cut to three sentences
C2_Witness ==
    /\ ChatSucceeded
    /\ response.body.language = "hi"
    /\ Len(trace) = 6
    /\ trace[5].out = HindiLong
    /\ response.body.answer # HindiLong

\* C3 as the specification states it: for a question that is not English the
\* completion is post-processed first and the translation back comes last.
C3_PostProcessBeforeTranslation ==
    (ChatSucceeded /\ response.body.language # "en") =>
        \E i, j \in 1..Len(trace) :
            /\ i < j
            /\ trace[i].step = "_post_process_response"
            /\ trace[j].step = "translate_response"
            /\ j = Len(trace)

\* C3: for a question that is not English the completion itself is what is
\* translated back, and the answer is the post-processed translation.
C3_TranslationBeforePostProcess ==
    (ChatSucceeded /\ response.body.language # "en") =>
        \E i, j \in 1..Len(trace) :
            /\ i < j
            /\ trace[i].step = "llm"
            /\ trace[j].step = "translate_response"
            /\ trace[j].arg = trace[i].out
            /\ response.body.answer = _post_process_response(trace[j].out)

\* a long completion was translated to Hindi whole
C3_Witness ==
    /\ ChatSucceeded
    /\ response.body.language = "hi"
    /\ \E j \in 1..Len(trace) :
          /\ trace[j].step = "translate_response"
          /\ trace[j].arg = LongAnswer
          /\ trace[j].out = HindiLong

\* C9: handling a /chat request leaves the index, and whether it exists, as
\* they were.
C9_ChatReadsOnly ==
    [][(request'  # None /\ request'.endpoint = "/chat")
          => (index' = index /\ indexExists' = indexExists)]_vars

\* a question was answered from an index that holds records
C9_Witness ==
    /\ ChatSucceeded
    /\ DOMAIN index # {}
    /\ response.body.retrieved_docs > 0

\* C10: no step removes a record: every id in the index stays in the index.
C10_NoRecordRemoved ==
    [][DOMAIN index \subseteq DOMAIN index']_vars

\* an ingestion has written its chunks next to records that were there before
C10_Witness ==
    /\ request # None
    /\ request.endpoint # "/chat"
    /\ response.status = 200
    /\ all_chunks # <<>>
    /\ \E id \in DOMAIN index : \A k \in 1..Len(all_chunks) : all_chunks[k].id # id

-----------------------------------------------------------------------------
(* The chunker on its own: process_scraped_data applied to raw documents *)

\* the most raw documents in one list
MaxDocs == 2

NewsDoc == [title |-> "Verstappen wins", content |-> <<"Max", "won", "in", "Monaco", "again">>,
            url |-> "f1.com/news/1", source |-> "F1 Official", type |-> "news"]
HindiDoc == [title |-> "Samachar", content |-> <<"ka", "kha">>, url |-> "f1.com/hi/1",
             source |-> "F1 Official", type |-> "news", language |-> "hi", section |-> "News"]
NoUrlDoc == [title |-> "Note", content |-> <<"Pit", "stop", "rules">>]
PoisonDoc == [title |-> "Raw dump", content |-> <<"text", SpecialToken>>, url |-> "f1.com/raw"]
WikiDoc == [title |-> "Monaco Grand Prix", url |-> "wiki/Monaco", source |-> "Wikipedia",
            type |-> "encyclopedia", language |-> "en",
            summary |-> <<"Street", "race">>,
            content |-> <<"Street", "race", "since", "1929">>,
            sections |-> << [section |-> "History", content |-> <<"Since", "1929">>],
                            [content |-> <<"Tight">>],
                            [section |-> "Gallery", content |-> <<>>] >>]
WikiNoSections == [title |-> "McLaren", url |-> "wiki/McLaren", source |-> "Wikipedia",
                   type |-> "encyclopedia", language |-> "en", summary |-> <<"Team">>,
                   content |-> <<"Woking", "team">>, sections |-> <<>>]
WikiNoUrl == [title |-> "DRS", source |-> "Wikipedia",
              sections |-> << [section |-> "Use", content |-> <<"Overtaking", "aid">>] >>]
WikiPoison == [title |-> "Pit stop", url |-> "wiki/Pit_stop", source |-> "Wikipedia",
               summary |-> <<"Stops">>,
               sections |-> << [section |-> "Rules", content |-> <<"Two", "compounds">>],
                               [section |-> "Raw", content |-> <<"dump", SpecialToken>>] >>]
RawDocuments ==
    {NewsDoc, HindiDoc, NoUrlDoc, PoisonDoc, WikiDoc, WikiNoSections, WikiNoUrl, WikiPoison}

InitChunk ==
    /\ scraped_data \in SeqsUpTo(RawDocuments, MaxDocs)
    /\ all_chunks = <<>>
    /\ request = None
    /\ response = None
    /\ indexExists = FALSE
    /\ index = <<>>
    /\ trace = <<>>
    /\ opLog = <<>>
    /\ calls = <<>>
    /\ workers = <<>>

\* all_chunks = chunker.process_scraped_data(scraped_data)
ProcessScrapedData ==
    /\ request = None
    /\ all_chunks' = process_scraped_data(scraped_data)
    /\ request' = [operation |-> "process_scraped_data"]
    /\ UNCHANGED <<scraped_data, response, indexExists, index, trace, opLog, calls, workers>>

NextChunk == ProcessScrapedData

SpecChunk == InitChunk /\ [][NextChunk]_vars

-----------------------------------------------------------------------------
(* Properties of the chunker *)

Processed == request = [operation |-> "process_scraped_data"]

\* the document takes the Wikipedia path of process_scraped_data
HasSections(doc) ==
    Get(doc, "source", "") = "Wikipedia" /\ Truthy(Get(doc, "sections", <<>>))

\* chunk k of all_chunks is the first chunk of its run (i = 0) or follows the
\* chunk whose id is before
CountsUp(k, i, before) == i = 0 \/ (k > 1 /\ all_chunks[k - 1].id = before)

ChunkPositions == 0..Len(all_chunks)

\* C6 as the specification states it: every chunk's id is {url}_{index}, url
\* being the url of one of the raw documents and index counting that
\* document's chunks from 0.
C6_IdIsUrlAndIndex ==
    Processed =>
        \A k \in 1..Len(all_chunks) :
            \E n \in 1..Len(scraped_data) : \E i \in ChunkPositions :
                /\ "url" \in DOMAIN scraped_data[n]
                /\ all_chunks[k].id = <<scraped_data[n].url, "_", ToString(i)>>
                /\ CountsUp(k, i, <<scraped_data[n].url, "_", ToString(i - 1)>>)

\* C6: a chunk of a document on the regular path has the id {url}_{i}, url
\* being 'unknown' for a document without one; a chunk of a Wikipedia document
\* with sections has the id {url}_summary_{i} or {url}_section_{s}_{i}, s being
\* the position of the section in the document; i counts the chunks of the
\* document, of the summary or of the section from 0.
C6_IdFormats ==
    Processed =>
        \A k \in 1..Len(all_chunks) :
            \E n \in 1..Len(scraped_data) : \E i \in ChunkPositions :
                LET doc == scraped_data[n]
                    id == all_chunks[k].id
                IN  IF ~HasSections(doc)
                    THEN /\ id = <<Get(doc, "url", "unknown"), "_", ToString(i)>>
                         /\ CountsUp(k, i, <<Get(doc, "url", "unknown"), "_", ToString(i - 1)>>)
                    ELSE \/ /\ id = <<Get(doc, "url", ""), "_summary_", ToString(i)>>
                            /\ CountsUp(k, i, <<Get(doc, "url", ""), "_summary_", ToString(i - 1)>>)
                         \/ \E s \in 0..(Len(doc.sections) - 1) :
                               /\ id = <<Get(doc, "url", ""), "_section_", ToString(s),
                                         "_", ToString(i)>>
                               /\ CountsUp(k, i, <<Get(doc, "url", ""), "_section_", ToString(s),
                                                   "_", ToString(i - 1)>>)

\* a list with a Wikipedia document whose section takes two chunks and with a
\* document that has no url
C6_Witness ==
    /\ Processed
    /\ \E k \in 1..Len(all_chunks) : all_chunks[k].id = <<"wiki/Monaco", "_section_", "0", "_", "1">>
    /\ \E k \in 1..Len(all_chunks) : all_chunks[k].id = <<"unknown", "_", "1">>

MetadataFields ==
    {"source", "url", "title", "chunk_index", "total_chunks", "type", "language",
     "section", "token_count"}

\* C7: every chunk is {id, content, metadata} and its metadata holds all nine
\* fields, on the regular path and on the Wikipedia path.
C7_NineMetadataFields ==
    Processed =>
        \A k \in 1..Len(all_chunks) :
            /\ DOMAIN all_chunks[k] = {"id", "content", "metadata"}
            /\ MetadataFields \subseteq DOMAIN all_chunks[k].metadata

-----------------------------------------------------------------------------
(* The operations on their own: each is called once, with whatever its
   external services may answer, and returns or raises *)

HindiQuestion == <<"kaun", " ", "jeeta">>
Texts == {Question, HindiQuestion}
Languages == {"en", "hi"}

\* chunk lists handed to upsert_chunks
MalformedChunk == [content |-> <<"orphan">>]
Batches ==
    {<<>>, process_scraped_data(<<NewsDoc>>), process_scraped_data(<<WikiNoSections>>),
     <<MalformedChunk>>, process_scraped_data(<<NewsDoc>>) \o <<MalformedChunk>>}

Called(name) == [operation |-> name]

InitOps ==
    /\ indexExists \in BOOLEAN
    /\ index = <<>>
    /\ request = None
    /\ response = None
    /\ trace = <<>>
    /\ opLog = <<>>
    /\ calls = <<>>
    /\ scraped_data = <<>>
    /\ all_chunks = <<>>
    /\ workers = <<>>

\* LanguageHandler.detect_language(text)
DetectLanguage(text, detected) ==
    \E out \in {detect_language(detected)} :
        /\ request' = Called("detect_language")
        /\ response' = out
        /\ opLog' = <<Op("detect_language", text, detected = "RAISE", out)>>
        /\ calls' = <<Call("detect", text)>>
        /\ trace' = <<Step("detect", text, <<detected>>)>>
        /\ UNCHANGED <<indexExists, index, scraped_data, all_chunks>>

\* LanguageHandler.translate_to_english(text, source_lang)
TranslateToEnglish(text, source_lang, answer) ==
    \E out \in {translate_to_english(text, source_lang, answer)} :
        /\ request' = Called("translate_to_english")
        /\ response' = out
        /\ opLog' = <<Op("translate_to_english", text, source_lang # "en" /\ ~answer.ok, out)>>
        /\ calls' = IF source_lang # "en" THEN <<Call("translate", text)>> ELSE <<>>
        /\ UNCHANGED <<indexExists, index, trace, scraped_data, all_chunks>>

\* LanguageHandler.translate_response(text, target_lang)
TranslateResponse(text, target_lang, answer) ==
    \E out \in {translate_response(text, target_lang, answer)} :
        /\ request' = Called("translate_response")
        /\ response' = out
        /\ opLog' = <<Op("translate_response", text, target_lang # "en" /\ ~answer.ok, out)>>
        /\ calls' = IF target_lang # "en" THEN <<Call("translate", text)>> ELSE <<>>
        /\ UNCHANGED <<indexExists, index, trace, scraped_data, all_chunks>>

\* F1RAGChain.query(question)
Query(question, env) ==
    \E out \in {query(question, env, index)} :
        /\ request' = Called("query")
        /\ response' = [raised |-> out.raised, val |-> out.resp]
        /\ trace' = out.trace
        /\ opLog' = out.ops \o <<Op("query", question, ~env.retrieve.ok \/ ~env.llm.ok,
                                    [raised |-> out.raised, val |-> out.resp])>>
        /\ calls' = out.calls
        /\ UNCHANGED <<indexExists, index, scraped_data, all_chunks>>

\* PineconeClient()
SetupIndex(env) ==
    \E out \in {PineconeClient(indexExists, env)} :
        /\ request' = Called("_setup_index")
        /\ response' = [raised |-> out.raised, val |-> out.val]
        /\ indexExists' = out.exists
        /\ opLog' = <<Op("_setup_index", "index_name", out.failed, out)>>
        /\ calls' = out.calls
        /\ UNCHANGED <<index, trace, scraped_data, all_chunks>>

\* PineconeClient.upsert_chunks(chunks)
UpsertChunks(chunks, answer) ==
    \E out \in {upsert_chunks(chunks, index, answer)} :
        /\ indexExists
        /\ request' = Called("upsert_chunks")
        /\ response' = Ret(out.ret)
        /\ index' = out.store
        /\ all_chunks' = chunks
        /\ opLog' = <<Op("upsert_chunks", "index_name", out.failed, Ret(out.ret))>>
        /\ calls' = out.calls
        /\ trace' = [k \in 1..Len(out.args) |-> Step("add_texts", out.args[k], ~out.failed)]
        /\ UNCHANGED <<indexExists, scraped_data>>

\* PineconeClient.search(query)
Search(q, answer) ==
    \E out \in {search(q, index, answer)} :
        /\ indexExists
        /\ request' = Called("search")
        /\ response' = out
        /\ opLog' = <<Op("search", q, ~answer.ok, out)>>
        /\ calls' = <<Call("similarity_search", q)>>
        /\ UNCHANGED <<indexExists, index, trace, scraped_data, all_chunks>>

\* WikipediaF1Scraper.scrape_all_f1_content()
ScrapeAllF1Content(answers) ==
    \E out \in {scrape_all_f1_content(f1_pages, answers)} :
        /\ request' = Called("scrape_all_f1_content")
        /\ response' = Ret(out.docs)
        /\ scraped_data' = out.docs
        /\ opLog' = out.ops
        /\ calls' = out.calls
        /\ UNCHANGED <<indexExists, index, trace, all_chunks>>

\* run_f1_official_scraper()
RunF1OfficialScraper(env) ==
    \E out \in {run_f1_official_scraper(env)} :
        /\ request' = Called("run_f1_official_scraper")
        /\ response' = Ret(out.news)
        /\ opLog' = out.ops
        /\ calls' = out.calls
        /\ UNCHANGED <<indexExists, index, trace, scraped_data, all_chunks>>

\* OpenF1Client.get_comprehensive_f1_data()
GetComprehensiveF1Data(env) ==
    \E out \in {get_comprehensive_f1_data(env)} :
        /\ request' = Called("get_comprehensive_f1_data")
        /\ response' = Ret(out.data)
        /\ opLog' = out.ops
        /\ calls' = out.calls
        /\ UNCHANGED <<indexExists, index, trace, scraped_data, all_chunks>>

\* the caller has the outcome and may call again
Return ==
    /\ request # None
    /\ request' = None
    /\ response' = None
    /\ trace' = <<>>
    /\ opLog' = <<>>
    /\ calls' = <<>>
    /\ scraped_data' = <<>>
    /\ all_chunks' = <<>>
    /\ UNCHANGED <<indexExists, index, workers>>

CallLanguageHandler ==
    request = None /\ UNCHANGED workers /\ \E text \in Texts :
        \/ \E detected \in DetectAnswers : DetectLanguage(text, detected)
        \/ \E lang \in Languages, answer \in TranslateQAnswers :
              TranslateToEnglish(text, lang, answer)
        \/ \E lang \in Languages, answer \in TranslateAAnswers :
              TranslateResponse(text, lang, answer)

CallRAGChain ==
    request = None /\ UNCHANGED workers /\ \E question \in Texts, env \in ChatEnvs(indexExists, index) :
        Query(question, env)

CallPineconeClient ==
    request = None /\ UNCHANGED workers /\
        \/ \E env \in SetupEnvs : SetupIndex(env)
        \/ \E chunks \in Batches, answer \in AddTextsAnswers : UpsertChunks(chunks, answer)
        \/ \E q \in Texts, answer \in RetrieveAnswers(indexExists, index) : Search(q, answer)

CallScrapers ==
    request = None /\ UNCHANGED workers /\
        \/ \E answers \in WikiRuns(f1_pages, WikiAnswers) : ScrapeAllF1Content(answers)
        \/ \E env \in OfficialEnvs : RunF1OfficialScraper(env)
        \/ \E env \in OpenF1Envs : GetComprehensiveF1Data(env)

NextOps == CallLanguageHandler \/ CallRAGChain \/ CallPineconeClient \/ CallScrapers \/ Return

SpecOps == InitOps /\ [][NextOps]_vars

-----------------------------------------------------------------------------
(* Properties of the operations *)

ReturnsDefault(entry) ==
    CASE entry.op = "detect_language" -> entry.val = "en"
      [] entry.op \in {"translate_to_english", "translate_response"} -> entry.val = entry.arg
      [] entry.op = "upsert_chunks" -> entry.val = FALSE
      [] entry.op \in {"search", "get_sessions", "get_drivers", "get_meetings",
                       "get_race_results"} -> entry.val = <<>>
      [] entry.op = "scrape_page_content" -> entry.val = None
      [] entry.op = "scrape_news" ->
            \/ entry.val = get_sample_news
            \/ /\ entry.val # <<>>
               /\ \A n \in 1..Len(entry.val) : entry.val[n].source = "F1 Official"
      [] entry.op = "query" ->
            /\ \E lang \in DOMAIN error_messages : entry.val.answer = error_messages[lang]
            /\ entry.val.sources = <<>>
            /\ "error" \in DOMAIN entry.val
      [] OTHER -> FALSE

RequestKinds ==
    {"driver.get", "wikipedia.page", "translate", "llm", "add_texts", "requests.get sessions",
     "requests.get drivers", "requests.get meetings", "requests.get results"}

\* C5: within one operation no request of one kind for one target is issued
\* twice.
C5_EachRequestAtMostOnce ==
    \A i, j \in 1..Len(calls) :
        (i < j /\ calls[i].kind \in RequestKinds /\ calls[i].kind = calls[j].kind)
            => calls[i].target # calls[j].target

-----------------------------------------------------------------------------
(* src/scripts/multi_season_f1_scraper.py *)

\* the seasons of one scrape: start_year .. start_year + MaxYears - 1
MaxYears == 3
start_year == 2020
end_year == start_year + MaxYears - 1
\* the size of the thread pool
max_workers == 2

years == [k \in 1..MaxYears |-> start_year + k - 1]

\* an exception raised in the worker outside the reach of the scrape
\* functions' own handlers (inside a handler, or in scrape_year_parallel
\* itself): it leaves scrape_year_parallel and is kept in the future
Escapes == [ok |-> FALSE, val |-> <<>>, escapes |-> TRUE]

\* scrape_motorsport_season, scrape_season_standings, scrape_season_schedule:
\* answer carries the articles found on the page that session.get returned
scrape_motorsport_season(year, answer) ==
    IF answer.ok THEN Ret(answer.val) ELSE IF "escapes" \in DOMAIN answer THEN Raised ELSE Ret(<<>>)
scrape_season_standings(year, answer) ==
    IF answer.ok THEN Ret(answer.val) ELSE IF "escapes" \in DOMAIN answer THEN Raised ELSE Ret(<<>>)
scrape_season_schedule(year, answer) ==
    IF answer.ok THEN Ret(answer.val) ELSE IF "escapes" \in DOMAIN answer THEN Raised ELSE Ret(<<>>)

\* scrape_year_parallel((year, base_urls)): the articles of the year, or the
\* exception of the first scrape that raised
scrape_year_parallel(year, env) ==
    LET articles == scrape_motorsport_season(year, env.news)
        standings == scrape_season_standings(year, env.standings)
        schedule == scrape_season_schedule(year, env.schedule)
    IN  IF articles.raised \/ standings.raised \/ schedule.raised THEN Raised
        ELSE Ret(articles.val \o standings.val \o schedule.val)

\* str.lower() of a title
Lower(title) ==
    CASE title = "Season Review" -> "season review"
      [] title = "Championship Standings" -> "championship standings"
      [] title = "Race Report" -> "race report"
      [] OTHER -> title

\* a key that tells titles apart by their case
TitleKeyCaseSensitive(article) == "md5:" \o article.title

\* improved_f1_scraper.py line 313, add_fresh_f1_data.py line 333:
\* hashlib.md5(article['title'].lower().encode()).hexdigest()
TitleKey(article) == "md5:" \o Lower(article.title)

\* a key that leaves the year out
TitleKeyIgnoringYear(article) == Lower(article.title) \o "_"

\* multi_season_f1_scraper.py line 324:
\* f"{article['title'].lower()}_{article.get('year', '')}"
TitleYearKey(article) ==
    Lower(article.title) \o "_"
        \o (IF "year" \in DOMAIN article THEN ToString(article.year) ELSE "")

\* the key remove_duplicates uses in the given script
DuplicateKey(script, article) ==
    IF script = "multi_season_f1_scraper" THEN TitleYearKey(article) ELSE TitleKey(article)

\* the loop of remove_duplicates from article k on, seen holding the keys met
RECURSIVE UniqueFrom(_, _, _, _)
UniqueFrom(script, articles, k, seen) ==
    IF k > Len(articles) THEN <<>>
    ELSE LET key == DuplicateKey(script, articles[k])
         IN  IF key \notin seen
             THEN <<articles[k]>> \o UniqueFrom(script, articles, k + 1, seen \cup {key})
             ELSE UniqueFrom(script, articles, k + 1, seen)

\* remove_duplicates(articles) of the given script
remove_duplicates(script, articles) == UniqueFrom(script, articles, 1, {})

\* collecting that gives up the list when a worker has raised
CollectOrReset(all_articles, result) ==
    IF result.raised THEN <<>> ELSE all_articles \o result.val

\* lines 289-294: future.result() extends all_articles, or raises and is logged
CollectResult(all_articles, result) ==
    IF result.raised THEN all_articles ELSE all_articles \o result.val

\* what the sites hold for one season
NewsArticle(year) ==
    [title |-> "Season review", source |-> "Motorsport.com", url |-> "motorsport/news",
     type |-> "news", language |-> "en", content |-> <<"Season", "review">>, year |-> year]
StandingsArticle(year) ==
    [title |-> "Championship Standings", source |-> "Standings", url |-> "motorsport/standings",
     type |-> "standings", language |-> "en", content |-> <<"Standings">>, year |-> year]
\* the same story once more under another address
NewsReprint(year) ==
    [title |-> "Season review", source |-> "Motorsport.com", url |-> "motorsport/news/reprint",
     type |-> "news", language |-> "en", content |-> <<"Season", "review", "again">>, year |-> year]
YearEnvs(year) ==
    [news : {Success(<<NewsArticle(year), NewsArticle(year)>>),
             Success(<<NewsArticle(year), NewsReprint(year)>>), Failure, Escapes},
     standings : {Success(<<StandingsArticle(year)>>), Failure},
     schedule : {Failure, Escapes}]

Future(state, result) == [state |-> state, result |-> result]
Years == {years[k] : k \in 1..Len(years)}
InState(state) == {year \in Years : workers[year].state = state}

InitSeason ==
    /\ workers = [year \in Years |-> Future("pending", None)]
    /\ scraped_data = <<>>
    /\ request = Called("comprehensive_multi_season_scrape")
    /\ response = None
    /\ indexExists = TRUE
    /\ index = <<>>
    /\ trace = <<>>
    /\ opLog = <<>>
    /\ calls = <<>>
    /\ all_chunks = <<>>

\* a free thread of the pool takes the next submitted task
Run(year) ==
    /\ workers[year].state = "pending"
    /\ \A other \in InState("pending") : year <= other
    /\ Cardinality(InState("running")) < max_workers
    /\ workers' = [workers EXCEPT ![year] = Future("running", None)]
    /\ UNCHANGED <<indexExists, index, response, request, trace, opLog, calls, scraped_data,
                   all_chunks>>

\* the worker of year returns or raises: its future is done
Finish(year, env) ==
    /\ workers[year].state = "running"
    /\ workers' = [workers EXCEPT ![year] = Future("done", scrape_year_parallel(year, env))]
    /\ UNCHANGED <<indexExists, index, response, request, trace, opLog, calls, scraped_data,
                   all_chunks>>

\* as_completed yields a future that is done and the loop body handles it
Collect(year) ==
    /\ workers[year].state = "done"
    /\ scraped_data' = CollectResult(scraped_data, workers[year].result)
    /\ workers' = [workers EXCEPT ![year].state = "yielded"]
    /\ UNCHANGED <<indexExists, index, response, request, trace, opLog, calls, all_chunks>>

\* the articles below which the guaranteed content is added
LOW_ARTICLE_COUNT == 10

\* get_historical_f1_content(): the two guaranteed articles
get_historical_f1_content ==
    << [title |-> "Lewis Hamilton Championship Years", source |-> "Historical F1 Data",
        url |-> "historical_data", type |-> "historical", language |-> "en",
        content |-> <<"Hamilton", "won">>, year |-> "multiple"],
       [title |-> "Sebastian Vettel Red Bull Era", source |-> "Historical F1 Data",
        url |-> "historical_data", type |-> "historical", language |-> "en",
        content |-> <<"Vettel", "dominated">>, year |-> "multiple"] >>

\* lines 296-316, after the pool has shut down: duplicates are removed, the
\* guaranteed content is added to a short list, the articles are chunked and
\* the chunks uploaded; answer is what add_texts does
FinishScrape(answer) ==
    \E unique \in {remove_duplicates("multi_season_f1_scraper", scraped_data)} :
    \E all_articles \in {IF Len(unique) < LOW_ARTICLE_COUNT
                          THEN unique \o get_historical_f1_content ELSE unique} :
    \E chunks \in {process_scraped_data(all_articles)} :
    \E out \in {IF chunks # <<>> THEN upsert_chunks(chunks, index, answer)
                 ELSE [ret |-> FALSE, store |-> index, calls |-> <<>>, failed |-> FALSE,
                       args |-> <<>>]} :
        /\ \A year \in Years : workers[year].state = "yielded"
        /\ response = None
        /\ trace' = <<Step("remove_duplicates", scraped_data, unique)>>
        /\ all_chunks' = chunks
        /\ index' = out.store
        /\ calls' = out.calls
        /\ opLog' = <<Op("upsert_chunks", "index_name", out.failed, Ret(out.ret))>>
        /\ response' = Ret(out.ret)
        /\ UNCHANGED <<indexExists, request, scraped_data, workers>>

RunWorker == \E year \in Years : Run(year)
FinishWorker == \E year \in Years : \E env \in YearEnvs(year) : Finish(year, env)
CollectFuture == \E year \in Years : Collect(year)
UploadSeasons == \E answer \in AddTextsAnswers : FinishScrape(answer)

NextSeason == RunWorker \/ FinishWorker \/ CollectFuture \/ UploadSeasons

SpecSeason == InitSeason /\ [][NextSeason]_vars

-----------------------------------------------------------------------------
(* Properties of the multi-season scrape *)

RECURSIVE ArticlesOfYear(_, _)
ArticlesOfYear(articles, year) ==
    IF articles = <<>> THEN <<>>
    ELSE (IF Head(articles).year = year THEN <<Head(articles)>> ELSE <<>>)
         \o ArticlesOfYear(Tail(articles), year)

\* as_completed has yielded the future of year
Yielded(year) == workers[year].state = "yielded"

\* C11: the article list holds, for every year whose future has been yielded,
\* exactly what that year's worker returned, and nothing for a year whose
\* worker raised, whatever the workers of the other years did.
C11_WorkerFailureIsolated ==
    \A year \in Years :
        ArticlesOfYear(scraped_data, year) =
            IF Yielded(year) /\ ~workers[year].result.raised
            THEN workers[year].result.val
            ELSE <<>>

\* every future has been yielded; the first year's worker raised and a later
\* year's articles were collected all the same, after the failure was handled
C11_Witness ==
    /\ \A year \in Years : Yielded(year)
    /\ workers[start_year].result.raised
    /\ \E year \in Years : ~workers[year].result.raised /\ workers[year].result.val # <<>>
    /\ scraped_data # <<>>

-----------------------------------------------------------------------------
(* Properties of the language handler and of the chain's answers *)

\* C12: detect_language returns only 'en' or 'hi', and never raises: 'hi'
\* exactly when the detector reports Hindi, 'en' for English, for any other
\* language and when detection raises; the language of every answer of query
\* is therefore 'en' or 'hi'.
C12_DetectsEnglishOrHindi ==
    /\ request = Called("detect_language") =>
          /\ ~response.raised
          /\ response.val \in {"en", "hi"}
          /\ response.val = "hi" <=> trace[1].out \in {<<"hi">>, <<"hindi">>}
    /\ \A i \in 1..Len(opLog) :
          opLog[i].op = "detect_language" => ~opLog[i].raised /\ opLog[i].val \in {"en", "hi"}
    /\ request = Called("query") =>
          ~response.raised /\ response.val.language \in {"en", "hi"}

\* the detector reported a language that is not supported and detect_language
\* answered 'en'
C12_Witness ==
    /\ request = Called("detect_language")
    /\ trace[1].out = <<"fr">>
    /\ response = Ret("en")

\* C13: the chain receives the question in English: the original text of a
\* question detected as English, and for a question detected as another
\* language its English translation, never the original text.
C13_ChainReceivesEnglish ==
    request = Called("query") =>
        \A i \in 1..Len(trace) :
            trace[i].step \in {"retrieve", "llm"} =>
                IF trace[1].out = <<"en">>
                THEN trace[i].arg = trace[1].arg
                ELSE trace[i].arg = EnglishQuestion /\ trace[i].arg # trace[1].arg

-----------------------------------------------------------------------------
(* Properties of the endpoints *)

Answering(endpoint) == request # None /\ request.endpoint = endpoint

\* C14: GET /health is answered 200 with the status 'healthy', the supported
\* languages ['en', 'hi'] and a timestamp.
C14_HealthAnswersHealthy ==
    Answering("/health") =>
        /\ response.status = 200
        /\ response.body.status = "healthy"
        /\ "timestamp" \in DOMAIN response.body
        /\ "supported_languages" \in DOMAIN response.body
        /\ response.body.supported_languages = <<"en", "hi">>

\* C15: a POST /chat whose message is missing, empty or only whitespace is
\* answered 400 with an error field, and nothing of the RAG chain has run for
\* it: no detection, no translation, no retrieval, no completion.
C15_NoMessageRejected ==
    (Answering("/chat") /\ ~HasQuestion(request.body)) =>
        /\ response.status = 400
        /\ "error" \in DOMAIN response.body
        /\ trace = <<>> /\ opLog = <<>> /\ calls = <<>>

Ingesting == Answering("/scrape-and-update") \/ Answering("/admin/bulk-add-data")

\* the last operation of the handler was upsert_chunks and it returned True
UpsertSucceeded ==
    /\ opLog # <<>>
    /\ opLog[Len(opLog)].op = "upsert_chunks"
    /\ ~opLog[Len(opLog)].raised
    /\ opLog[Len(opLog)].val = TRUE

ReportedChunks ==
    IF request.endpoint = "/scrape-and-update" THEN response.body.created_chunks
    ELSE response.body.chunks_created

ReportedDocuments ==
    IF request.endpoint = "/scrape-and-update" THEN response.body.scraped_documents
    ELSE response.body.articles_processed

\* C16: an ingestion endpoint answers 200 exactly when upsert_chunks, called
\* after all scraping and chunking, returned True; the 200 answer reports the
\* number of documents and the number of chunks handed to the upsert; every
\* other answer is a 400 or a 500 that carries an error.
C16_SuccessIffUpserted ==
    Ingesting =>
        /\ response.status = 200 <=> UpsertSucceeded
        /\ response.status = 200 =>
              /\ ReportedChunks = Len(all_chunks)
              /\ ReportedDocuments = Len(scraped_data)
        /\ response.status # 200 =>
              /\ response.status \in {400, 500}
              /\ "error" \in DOMAIN response.body

\* a bulk upload was chunked, upserted and answered 200 with its chunk count
C16_Witness ==
    /\ Answering("/admin/bulk-add-data")
    /\ response.status = 200
    /\ UpsertSucceeded
    /\ response.body.chunks_created = Len(all_chunks)
    /\ Len(all_chunks) > 0

\* the articles a bulk upload carries
SubmittedArticles == Get(request.body, "articles", <<>>)

\* C17: a POST /admin/bulk-add-data with no articles field or an empty list is
\* answered 400 'No articles provided' before a vector-store client exists:
\* no index is looked up, created or written; a successful upload reports as
\* articles_processed the number of articles submitted.
C17_NoArticlesRejected ==
    Answering("/admin/bulk-add-data") =>
        /\ ~Truthy(SubmittedArticles) =>
              /\ response = Json(400, [error |-> "No articles provided"])
              /\ opLog = <<>> /\ calls = <<>>
        /\ (Truthy(SubmittedArticles) /\ response.status = 200) =>
              response.body.articles_processed = Len(SubmittedArticles)

-----------------------------------------------------------------------------
(* The post-processing on its own: _post_process_response applied to texts,
   directly and as the last step of query *)

\* the longest text has MaxSentences pieces between its '. ' separators
MaxSentences == 5

\* what can stand between two separators
Pieces ==
    { <<>>, <<"a">>, <<"d", ".">>, <<"However, I can provide more">>,
      <<"b", " ", "Furthermore,", " ", "c">> }

\* the texts of at most MaxSentences pieces
Responses ==
    UNION { {JoinSentences(pieces) : pieces \in [1..n -> Pieces]} : n \in 1..MaxSentences }

\* the answers of the services when the text reaches _post_process_response as
\* the completion of an English question, as the translation of a completion,
\* or as a completion whose translation failed
PostEnvs(text) ==
    { [detect |-> "en", detectAgain |-> "RAISE", translateQ |-> Failure, translateA |-> Failure,
       retrieve |-> Success(<<>>), llm |-> Success(text)],
      [detect |-> "hi", detectAgain |-> "RAISE", translateQ |-> Success(EnglishQuestion),
       translateA |-> Success(text), retrieve |-> Success(<<>>), llm |-> Success(ShortAnswer)],
      [detect |-> "hi", detectAgain |-> "RAISE", translateQ |-> Failure,
       translateA |-> Failure, retrieve |-> Success(<<>>), llm |-> Success(text)] }

Input(text) == [operation |-> "input", response |-> text]

InitPost ==
    /\ request \in {Input(text) : text \in Responses}
    /\ response = None
    /\ indexExists = TRUE
    /\ index = <<>>
    /\ trace = <<>>
    /\ opLog = <<>>
    /\ calls = <<>>
    /\ scraped_data = <<>>
    /\ all_chunks = <<>>
    /\ workers = <<>>

\* F1RAGChain._post_process_response(response)
PostProcessResponse ==
    /\ request.operation = "input"
    /\ request' = [request EXCEPT !.operation = "_post_process_response"]
    /\ response' = Ret(_post_process_response(request.response))
    /\ UNCHANGED <<indexExists, index, trace, opLog, calls, scraped_data, all_chunks, workers>>

\* F1RAGChain.query(question) when the services answer as env says
AnswerQuery(env) ==
    /\ request.operation = "input"
    /\ \E out \in {query(HindiQuestion, env, index)} :
           /\ response' = [raised |-> out.raised, val |-> out.resp]
           /\ trace' = out.trace
           /\ opLog' = out.ops
           /\ calls' = out.calls
    /\ request' = [request EXCEPT !.operation = "query"]
    /\ UNCHANGED <<indexExists, index, scraped_data, all_chunks, workers>>

AnswerQueries == \E env \in PostEnvs(request.response) : AnswerQuery(env)

NextPost == PostProcessResponse \/ AnswerQueries

SpecPost == InitPost /\ [][NextPost]_vars

-----------------------------------------------------------------------------
(* Properties of the post-processing *)

\* at most three pieces between '. ' separators and none of the trim phrases
Concise(text) ==
    /\ Len(SplitSentences(text)) <= SENTENCE_LIMIT
    /\ \A k \in 1..Len(keywords_to_trim) : ~Contains(text, keywords_to_trim[k])

\* C18: whatever the text, the result of _post_process_response has at most
\* three sentences and none of the five trim phrases; the answer of every
\* successful query is the result of _post_process_response, applied as the
\* last step, in either language.
C18_AnswersAreConcise ==
    /\ request.operation = "_post_process_response" => Concise(response.val)
    /\ (request.operation = "query" /\ "error" \notin DOMAIN response.val) =>
          /\ trace[Len(trace)].step = "_post_process_response"
          /\ response.val.answer = trace[Len(trace)].out
          /\ response.val.answer = _post_process_response(trace[Len(trace)].arg)
          /\ Concise(response.val.answer)

\* a text of more than three sentences that holds a trim phrase has been
\* shortened
C18_Witness ==
    /\ request.operation = "_post_process_response"
    /\ Len(SplitSentences(request.response)) > SENTENCE_LIMIT
    /\ Contains(request.response, "Furthermore,")
    /\ response.val # request.response
    /\ Concise(response.val)

-----------------------------------------------------------------------------
(* Properties of query's failures *)

\* the record of the query being answered, and the detection that came last
QueryEntry == opLog[Len(opLog)]
LastDetection == opLog[Len(opLog) - 1]

\* C19: query never raises; when retrieval or the completion fails it returns
\* the fixed apology in the language detected for the question (the Hindi text
\* for 'hi', the English text otherwise), an empty list of sources,
\* retrieved_docs 0, the original question as english_question, and an error.
C19_QueryAnswersOnFailure ==
    request = Called("query") =>
        /\ ~response.raised
        /\ QueryEntry.extFailed =>
              /\ LastDetection.op = "detect_language"
              /\ response.val.language = LastDetection.val
              /\ response.val.answer =
                    IF response.val.language = "hi" THEN <<"kshama karen, truti">>
                    ELSE <<"I'm sorry, I encountered an error">>
              /\ response.val.sources = <<>>
              /\ response.val.retrieved_docs = 0
              /\ response.val.original_question = QueryEntry.arg
              /\ response.val.english_question = QueryEntry.arg
              /\ "error" \in DOMAIN response.val

\* the completion failed for a question detected as Hindi and query answered
\* with the Hindi apology
C19_Witness ==
    /\ request = Called("query")
    /\ QueryEntry.extFailed
    /\ Len(trace) >= 4 /\ trace[4].step = "llm"
    /\ response.val.language = "hi"
    /\ response.val.answer = <<"kshama karen, truti">>
    /\ "error" \in DOMAIN response.val

-----------------------------------------------------------------------------
(* Properties of the chunks' metadata *)

\* the chunk is one of the chunks of the document
DerivedFrom(chunk, doc) == \E k \in 1..Len(ChunksOf(doc)) : ChunksOf(doc)[k] = chunk

\* the metadata carries the document's source, url, title, type and language
CarriesFields(metadata, doc) ==
    /\ metadata.source = Get(doc, "source", "Unknown")
    /\ metadata.url = Get(doc, "url", "")
    /\ metadata.title = Get(doc, "title", "")
    /\ metadata.type = Get(doc, "type", "text")
    /\ metadata.language = Get(doc, "language", "en")

\* the metadata of a chunk of the summary or of a section of a Wikipedia
\* document
CarriesWikipediaFields(metadata, doc) ==
    /\ metadata.source = Get(doc, "source", "Wikipedia")
    /\ metadata.url = Get(doc, "url", "")
    /\ metadata.title = Get(doc, "title", "")
    /\ metadata.type \in {"encyclopedia_summary", "encyclopedia_section"}
    /\ metadata.type = "encyclopedia_summary" <=> metadata.section = "Summary"
    /\ metadata.language = "en"

\* C20 as the specification states it: every chunk carries the source, url,
\* title, type and language of the raw document it was derived from, with the
\* defaults 'Unknown', '', '', 'text' and 'en'.
C20_MetadataOfDocument ==
    Processed =>
        \A i \in 1..Len(all_chunks) :
            /\ \E d \in 1..Len(scraped_data) : DerivedFrom(all_chunks[i], scraped_data[d])
            /\ \A d \in 1..Len(scraped_data) :
                  DerivedFrom(all_chunks[i], scraped_data[d]) =>
                      CarriesFields(all_chunks[i].metadata, scraped_data[d])

\* C20: a chunk made by chunk_document carries the source, url, title, type
\* and language of its document, with those defaults; a chunk of a Wikipedia
\* document with sections carries the document's source, url and title, the
\* type encyclopedia_summary or encyclopedia_section and the language 'en'.
C20_MetadataByPath ==
    Processed =>
        \A i \in 1..Len(all_chunks) :
            /\ \E d \in 1..Len(scraped_data) : DerivedFrom(all_chunks[i], scraped_data[d])
            /\ \A d \in 1..Len(scraped_data) :
                  DerivedFrom(all_chunks[i], scraped_data[d]) =>
                      IF HasSections(scraped_data[d])
                      THEN CarriesWikipediaFields(all_chunks[i].metadata, scraped_data[d])
                      ELSE CarriesFields(all_chunks[i].metadata, scraped_data[d])

\* a Wikipedia document of type encyclopedia gave a section chunk, and a
\* document without source, url, type and language gave a chunk with the
\* defaults
C20_Witness ==
    /\ Processed
    /\ scraped_data = <<WikiDoc, NoUrlDoc>>
    /\ \E i \in 1..Len(all_chunks) :
          /\ DerivedFrom(all_chunks[i], WikiDoc)
          /\ all_chunks[i].metadata.type = "encyclopedia_section"
    /\ \E i \in 1..Len(all_chunks) :
          /\ DerivedFrom(all_chunks[i], NoUrlDoc)
          /\ all_chunks[i].metadata.source = "Unknown"
          /\ all_chunks[i].metadata.type = "text"

-----------------------------------------------------------------------------
(* remove_duplicates on its own: the three scripts' functions applied to
   lists of articles *)

\* the longest list of articles
MaxArticles == 3

Scripts == {"improved_f1_scraper", "add_fresh_f1_data", "multi_season_f1_scraper"}

\* articles as the scrapers build them: each has a title and a url, some a year
ScrapedArticles ==
    {[title |-> title, url |-> url] : title \in {"Race Report", "race report", "recap"},
                                      url \in {"motorsport/1", "motorsport/2"}}
    \cup {[title |-> title, url |-> "motorsport/1", year |-> year] :
              title \in {"Race Report", "race report"}, year \in {2020, 2021}}

InitDedup ==
    /\ scraped_data \in SeqsUpTo(ScrapedArticles, MaxArticles)
    /\ request = None
    /\ response = None
    /\ indexExists = TRUE
    /\ index = <<>>
    /\ trace = <<>>
    /\ opLog = <<>>
    /\ calls = <<>>
    /\ all_chunks = <<>>
    /\ workers = <<>>

\* unique = self.remove_duplicates(articles)
RemoveDuplicates(script) ==
    /\ request = None
    /\ request' = [operation |-> "remove_duplicates", script |-> script]
    /\ response' = Ret(remove_duplicates(script, scraped_data))
    /\ UNCHANGED <<scraped_data, indexExists, index, trace, opLog, calls, all_chunks, workers>>

\* unique = self.remove_duplicates(unique)
RemoveDuplicatesAgain ==
    /\ request # None
    /\ request.operation = "remove_duplicates"
    /\ request' = [request EXCEPT !.operation = "remove_duplicates again"]
    /\ trace' = <<Step("remove_duplicates", response.val, response.val)>>
    /\ response' = Ret(remove_duplicates(request.script, response.val))
    /\ UNCHANGED <<scraped_data, indexExists, index, opLog, calls, all_chunks, workers>>

Deduplicate == \E script \in Scripts : RemoveDuplicates(script)

NextDedup == Deduplicate \/ RemoveDuplicatesAgain

SpecDedup == InitDedup /\ [][NextDedup]_vars

-----------------------------------------------------------------------------
(* Properties of remove_duplicates *)

\* the key the claim names for the script
ClaimedKey(script, article) ==
    IF script = "multi_season_f1_scraper"
    THEN [title |-> Lower(article.title),
          year |-> IF "year" \in DOMAIN article THEN <<article.year>> ELSE <<>>]
    ELSE [title |-> Lower(article.title), year |-> <<>>]

\* the positions of articles that hold the first article of their key
FirstOccurrences(script, articles) ==
    {i \in 1..Len(articles) :
        \A j \in 1..(i - 1) : ClaimedKey(script, articles[j]) # ClaimedKey(script, articles[i])}

\* the elements of articles at the given positions, in the order of articles
RECURSIVE AtPositions(_, _, _)
AtPositions(articles, positions, k) ==
    IF k > Len(articles) THEN <<>>
    ELSE (IF k \in positions THEN <<articles[k]>> ELSE <<>>)
         \o AtPositions(articles, positions, k + 1)

\* C21: remove_duplicates returns the articles that are the first of their key
\* (the lower-cased title; with the year in the multi-season scraper), in the
\* order of the input; no two of them share the key; applying it again
\* returns the same list.
C21_KeepsFirstOccurrences ==
    /\ (request # None /\ request.operation = "remove_duplicates") =>
          /\ response.val =
                AtPositions(scraped_data, FirstOccurrences(request.script, scraped_data), 1)
          /\ \A i, j \in 1..Len(response.val) :
                i # j => ClaimedKey(request.script, response.val[i])
                           # ClaimedKey(request.script, response.val[j])
    /\ (request # None /\ request.operation = "remove_duplicates again") =>
          response.val = trace[1].arg

\* a later article whose title differs only in case was dropped and the two
\* others were kept in their order
C21_Witness ==
    /\ request # None
    /\ request.operation = "remove_duplicates"
    /\ request.script = "add_fresh_f1_data"
    /\ Len(scraped_data) = 3
    /\ scraped_data[1].title = "Race Report"
    /\ scraped_data[2].title = "race report"
    /\ response.val = <<scraped_data[1], scraped_data[3]>>

-----------------------------------------------------------------------------
(* src/scripts/add_fresh_f1_data.py: scrape_rss_feeds *)

\* the feeds of one run in the model: the first MaxFeeds of rss_feeds
MaxFeeds == 2
\* the most entries a feed holds in the model
MaxEntries == 2
\* line 237: feed.entries[:10]
ENTRY_LIMIT == 10

rss_feeds ==
    << "https://www.motorsport.com/rss/f1/news/", "https://www.autosport.com/rss/f1/news/",
       "https://www.skysports.com/rss/12433", "https://feeds.feedburner.com/FormulaOneFeed" >>

\* the names bound where the loop body of scrape_rss_feeds runs: its locals
\* and the names of the module
scrape_rss_feeds_names ==
    {"self", "rss_feeds", "all_articles", "feed_url", "feed", "entry"}
    \cup {"sys", "os", "requests", "BeautifulSoup", "feedparser", "time", "json", "datetime",
          "List", "Dict", "asyncio", "urljoin", "urlparse", "hashlib", "current_dir",
          "parent_dir", "F1TextChunker", "PineconeClient", "F1DataUpdater", "main"}

\* lines 239-248: the article of one entry
RssArticle(feed_url, entry) ==
    [title |-> Get(entry, "title", ""),
     content |-> Get(entry, "summary", Get(entry, "title", "")),
     url |-> Get(entry, "link", ""),
     source |-> "RSS: " \o feed_url,
     type |-> "news",
     language |-> "en",
     published |-> Get(entry, "published", "")]

\* lines 238-250: <target>.append(article) inside try/except Exception:
\* continue.  A name that is not bound raises NameError, which is caught
AppendTo(target, all_articles, article) ==
    IF target \notin scrape_rss_feeds_names THEN all_articles
    ELSE IF target = "all_articles" THEN Append(all_articles, article)
    ELSE all_articles

\* lines 237-250: the loop over the entries of one feed, from entry k on
RECURSIVE EntryLoop(_, _, _, _)
EntryLoop(feed_url, entries, k, all_articles) ==
    IF k > Len(entries) THEN all_articles
    ELSE EntryLoop(feed_url, entries, k + 1,
                   AppendTo("articles", all_articles, RssArticle(feed_url, entries[k])))

\* lines 232-256: the loop over the feeds, from feed k on; answers[k] is what
\* feedparser.parse gives for feed k
RECURSIVE FeedLoop(_, _, _, _)
FeedLoop(feeds, answers, k, all_articles) ==
    IF k > Len(feeds) THEN all_articles
    ELSE FeedLoop(feeds, answers, k + 1,
                  IF answers[k].ok
                  THEN EntryLoop(feeds[k], TakeFirst(answers[k].val, ENTRY_LIMIT), 1, all_articles)
                  ELSE all_articles)

\* scrape_rss_feeds()
scrape_rss_feeds(feeds, answers) == FeedLoop(feeds, answers, 1, <<>>)

\* what a feed holds
FeedEntries ==
    { [title |-> "Norris on pole", summary |-> "Norris took pole", link |-> "rss/norris"],
      [title |-> "Race Report", link |-> "rss/report"],
      [summary |-> "untitled"] }
FeedAnswers == {Failure} \cup {Success(entries) : entries \in SeqsUpTo(FeedEntries, MaxEntries)}

feeds_of_run == TakeFirst(rss_feeds, MaxFeeds)

InitFresh ==
    /\ request = None
    /\ response = None
    /\ scraped_data = <<>>
    /\ indexExists = TRUE
    /\ index = <<>>
    /\ trace = <<>>
    /\ opLog = <<>>
    /\ calls = <<>>
    /\ all_chunks = <<>>
    /\ workers = <<>>

\* all_data.extend(self.scrape_rss_feeds())
ScrapeRssFeeds(answers) ==
    /\ request = None
    /\ request' = Called("scrape_rss_feeds")
    /\ response' = Ret(scrape_rss_feeds(feeds_of_run, answers))
    /\ scraped_data' = scraped_data \o scrape_rss_feeds(feeds_of_run, answers)
    /\ trace' = [k \in 1..Len(feeds_of_run) |->
                    Step("feedparser.parse", feeds_of_run[k], answers[k].val)]
    /\ calls' = [k \in 1..Len(feeds_of_run) |-> Call("feedparser.parse", feeds_of_run[k])]
    /\ UNCHANGED <<indexExists, index, opLog, all_chunks, workers>>

CallScrapeRssFeeds ==
    request = None /\ \E answers \in [1..Len(feeds_of_run) -> FeedAnswers] : ScrapeRssFeeds(answers)

\* the run is over and the script may be run again
FinishRun ==
    /\ request # None
    /\ request' = None
    /\ response' = None
    /\ trace' = <<>>
    /\ calls' = <<>>
    /\ scraped_data' = <<>>
    /\ UNCHANGED <<indexExists, index, opLog, all_chunks, workers>>

NextFresh == CallScrapeRssFeeds \/ FinishRun

SpecFresh == InitFresh /\ [][NextFresh]_vars

-----------------------------------------------------------------------------
(* Properties of scrape_rss_feeds *)

\* the entries parsed over all the feeds, at most ENTRY_LIMIT of each
RECURSIVE ParsedEntries(_)
ParsedEntries(k) ==
    IF k > Len(trace) THEN 0
    ELSE Min(Len(trace[k].out), ENTRY_LIMIT) + ParsedEntries(k + 1)

\* C22: scrape_rss_feeds returns one article for every entry, up to the
\* latest ten, of every feed that parses, and update_database receives them.
C22_OneArticlePerEntry ==
    request = Called("scrape_rss_feeds") =>
        /\ Len(response.val) = ParsedEntries(1)
        /\ scraped_data = response.val

-----------------------------------------------------------------------------
(* Properties of the browser driver *)

\* the positions of calls that hold a request of the kind
CallsOfKind(kind) == {i \in 1..Len(calls) : calls[i].kind = kind}

\* C23: when run_f1_official_scraper returns, a driver that was started has
\* been quit, and quit was issued on it exactly once; no quit is issued when
\* no driver was started.
C23_DriverQuitOnce ==
    request = Called("run_f1_official_scraper") =>
        Cardinality(CallsOfKind("driver.quit")) =
            IF CallsOfKind("driver.get") # {} THEN 1 ELSE 0

-----------------------------------------------------------------------------
(* Properties of the English path of query *)

\* the query being answered detected its question as English
DetectedEnglish ==
    /\ request = Called("query")
    /\ trace # <<>>
    /\ trace[1].step = "detect_language"
    /\ trace[1].out = <<"en">>

\* C24: for a question detected as English the translation service is never
\* called; english_question is the original question, and a successful answer
\* is the post-processed completion of the LLM.
C24_EnglishNeverTranslated ==
    DetectedEnglish =>
        /\ CallsOfKind("translate") = {}
        /\ \A i \in 1..Len(opLog) : opLog[i].op # "translate_response"
        /\ response.val.english_question = trace[1].arg
        /\ response.val.original_question = trace[1].arg
        /\ "error" \notin DOMAIN response.val =>
              /\ Len(trace) = 5
              /\ trace[4].step = "llm"
              /\ trace[4].arg = trace[1].arg
              /\ response.val.answer = _post_process_response(trace[4].out)

\* an English question was answered with a long completion cut short, and no
\* translation was asked for
C24_Witness ==
    /\ DetectedEnglish
    /\ "error" \notin DOMAIN response.val
    /\ trace[4].out = LongAnswer
    /\ response.val.answer # LongAnswer
    /\ CallsOfKind("translate") = {}

-----------------------------------------------------------------------------
(* Properties of chunk_document's numbering *)

\* the chunks chunk_document made of document d of scraped_data, as they lie
\* in all_chunks: those of the documents before d come first
RECURSIVE ChunksBefore(_)
ChunksBefore(d) == IF d <= 1 THEN 0 ELSE ChunksBefore(d - 1) + Len(ChunksOf(scraped_data[d - 1]))

\* C25: the chunks chunk_document makes of a document lie in all_chunks in
\* order, chunk_index running over exactly 0..n-1 for n chunks, every one
\* with total_chunks n and with token_count the token length of its own
\* content.
C25_ChunksNumbered ==
    Processed =>
        \A d \in 1..Len(scraped_data) :
            ~HasSections(scraped_data[d]) =>
                LET n == Len(chunk_document(scraped_data[d]))
                    first == ChunksBefore(d)
                IN  /\ first + n <= Len(all_chunks)
                    /\ \A k \in 1..n :
                          /\ all_chunks[first + k].metadata.chunk_index = k - 1
                          /\ all_chunks[first + k].metadata.total_chunks = n
                          /\ all_chunks[first + k].metadata.token_count
                                = Len(all_chunks[first + k].content)
                          /\ all_chunks[first + k].metadata.title
                                = Get(scraped_data[d], "title", "")

\* a document was cut into more than one chunk, after the chunks of another
C25_Witness ==
    /\ Processed
    /\ Len(scraped_data) = 2
    /\ scraped_data[2] = NewsDoc
    /\ ChunksBefore(2) > 0
    /\ Len(chunk_document(NewsDoc)) > 1
    /\ all_chunks[Len(all_chunks)].metadata.chunk_index = Len(chunk_document(NewsDoc)) - 1

-----------------------------------------------------------------------------
(* Properties of process_scraped_data *)

\* tiktoken refuses one of the texts the chunking of doc hands to the splitter
ChunkingFails(doc) ==
    IF HasSections(doc)
    THEN \/ ~Encodable(Get(doc, "summary", <<>>))
         \/ \E s \in 1..Len(doc.sections) : ~Encodable(Get(doc.sections[s], "content", <<>>))
    ELSE ~Encodable(Get(doc, "content", <<>>))

\* all_chunks is the chunks of the first document, then those of the second,
\* and so on, each document giving what it gives alone and a failing one
\* nothing
ChunksConcatenated ==
    Processed =>
        /\ Len(all_chunks) = ChunksBefore(Len(scraped_data) + 1)
        /\ \A d \in 1..Len(scraped_data) :
              LET alone == process_scraped_data(<<scraped_data[d]>>)
                  mine == SubSeq(all_chunks, ChunksBefore(d) + 1, ChunksBefore(d + 1))
              IN  /\ mine = alone
                  /\ ChunkingFails(scraped_data[d]) => mine = <<>>
                  /\ \A k \in 1..Len(mine) :
                        mine[k].metadata.title = Get(scraped_data[d], "title", "")

\* C26: all_chunks is the chunks of the first document, then those of the
\* second, and so on; a document whose chunking fails gives no chunk at all,
\* and every other document gives the chunks it gives when processed alone;
\* no step changes the documents.
C26_ConcatenationInOrder ==
    /\ []ChunksConcatenated
    /\ [][scraped_data' = scraped_data]_vars

\* a Wikipedia document whose second section cannot be encoded gave nothing,
\* its first section included, and the document after it gave its chunks
C26_Witness ==
    /\ Processed
    /\ scraped_data = <<WikiPoison, NewsDoc>>
    /\ all_chunks # <<>>
    /\ \A k \in 1..Len(all_chunks) : all_chunks[k].metadata.title = "Verstappen wins"

\* the articles the workers returned, in the order the years were submitted
RECURSIVE ReturnedFrom(_)
ReturnedFrom(k) ==
    IF k > Len(years) THEN <<>>
    ELSE (IF workers[years[k]].result.raised THEN <<>> ELSE workers[years[k]].result.val)
         \o ReturnedFrom(k + 1)

\* the scrape has left the pool and removed the duplicates
Deduplicated == trace # <<>> /\ trace[1].step = "remove_duplicates"
ArticleSet(articles) == {articles[k] : k \in 1..Len(articles)}
UniqueArticles == ArticleSet(trace[1].out)

\* C27: never more than max_workers years are being scraped; once the pool is
\* left, the collected list holds, year by year, exactly what the workers that
\* did not raise returned, and the set of articles that remove_duplicates
\* keeps is the one it keeps of the results taken in the order of submission,
\* so it is the same in whatever order the workers completed.
C27_SameArticlesInAnyOrder ==
    /\ Cardinality(InState("running")) <= max_workers
    /\ Deduplicated =>
        /\ trace[1].arg = scraped_data
        /\ Len(scraped_data) = Len(ReturnedFrom(1))
        /\ \A year \in Years :
              ArticlesOfYear(scraped_data, year) =
                  IF workers[year].result.raised THEN <<>> ELSE workers[year].result.val
        /\ UniqueArticles = ArticleSet(remove_duplicates("multi_season_f1_scraper", ReturnedFrom(1)))

\* the workers completed out of the order of submission, a later year's
\* articles were collected before an earlier year's, one worker raised, and
\* remove_duplicates dropped a reprint that differs from the article it kept
C27_Witness ==
    /\ Deduplicated
    /\ scraped_data # ReturnedFrom(1)
    /\ \E year \in Years : workers[year].result.raised
    /\ \E year \in Years : NewsReprint(year) \in ArticleSet(scraped_data) \ UniqueArticles
    /\ Cardinality(UniqueArticles) >= 3

\* upsert_chunks has returned
Upserting == request = Called("upsert_chunks")

\* the chunks handed over, all of them with content, metadata and id
AllWellFormed == \A k \in 1..Len(all_chunks) : WellFormed(all_chunks[k])

\* C28: upsert_chunks returns True exactly when it made one add_texts call
\* and the call succeeded; it never makes a second call; the call passes
\* texts, metadatas and ids that are as long as the chunk list and hold, at
\* each position, the content, metadata and id of the chunk at that position;
\* when a chunk lacks one of the three, or add_texts raises, it returns False.
C28_OneAlignedUpload ==
    Upserting =>
        /\ ~response.raised
        /\ Cardinality(CallsOfKind("add_texts")) <= 1
        /\ Len(trace) = Cardinality(CallsOfKind("add_texts"))
        /\ response.val = TRUE <=>
              (Cardinality(CallsOfKind("add_texts")) = 1 /\ ~opLog[1].extFailed)
        /\ AllWellFormed <=> Cardinality(CallsOfKind("add_texts")) = 1
        /\ (~AllWellFormed \/ opLog[1].extFailed) => response.val = FALSE
        /\ \A i \in 1..Len(trace) :
              /\ trace[i].step = "add_texts"
              /\ Len(trace[i].arg.texts) = Len(all_chunks)
              /\ Len(trace[i].arg.metadatas) = Len(all_chunks)
              /\ Len(trace[i].arg.ids) = Len(all_chunks)
              /\ \A k \in 1..Len(all_chunks) :
                    /\ trace[i].arg.texts[k] = all_chunks[k].content
                    /\ trace[i].arg.metadatas[k] = all_chunks[k].metadata
                    /\ trace[i].arg.ids[k] = all_chunks[k].id

\* add_texts raised on a list of complete chunks after storing one of them:
\* upsert_chunks made its one call and answered False
C28_Witness ==
    /\ Upserting
    /\ Len(all_chunks) >= 1
    /\ AllWellFormed
    /\ Cardinality(CallsOfKind("add_texts")) = 1
    /\ opLog[1].extFailed
    /\ response = Ret(FALSE)
    /\ index # <<>>

-----------------------------------------------------------------------------
(* PineconeClient constructions that overlap: each runs _setup_index in its
   own thread or process against the one Pinecone project.  A construction
   is at one of the calls of lines 29-52; workers holds where each one is. *)

MaxClients == 3
Clients == 1..MaxClients

\* where a construction is, and what its list_indexes call told it
Construction(at, listed) == [at |-> at, listed |-> listed]
Constructing(at) == {client \in Clients : workers[client].at = at}

InitSetup ==
    /\ workers = [client \in Clients |-> Construction("idle", FALSE)]
    /\ indexExists \in BOOLEAN
    /\ index = <<>>
    /\ request = Called("PineconeClient")
    /\ response = None
    /\ trace = <<>>
    /\ opLog = <<>>
    /\ calls = <<>>
    /\ scraped_data = <<>>
    /\ all_chunks = <<>>

\* lines 10-21: PineconeClient() is called and reaches _setup_index
Construct(client) ==
    /\ workers[client].at = "idle"
    /\ workers' = [workers EXCEPT ![client] = Construction("_setup_index", FALSE)]
    /\ UNCHANGED <<indexExists, index, response, request, trace, opLog, calls, scraped_data,
                   all_chunks>>

\* line 32: list_indexes answers with the names that exist now, or raises
ListIndexes(client, ok) ==
    /\ workers[client].at = "_setup_index"
    /\ calls' = Append(calls, Call("list_indexes", "pinecone"))
    /\ workers' = [workers EXCEPT ![client] =
                      IF ok THEN Construction("listed", indexExists)
                      ELSE Construction("raised", FALSE)]
    /\ UNCHANGED <<indexExists, index, response, request, trace, opLog, scraped_data,
                   all_chunks>>

\* lines 34-44: the name was not in the list, create_index is called; Pinecone
\* refuses a name that exists by now, and may fail otherwise
CreateIndex(client, ok) ==
    /\ workers[client].at = "listed"
    /\ ~workers[client].listed
    /\ calls' = Append(calls, Call("create_index", "index_name"))
    /\ trace' = Append(trace, Step("create_index", client, indexExists))
    /\ indexExists' = (indexExists \/ ok)
    /\ workers' = [workers EXCEPT ![client].at =
                      IF ok /\ ~indexExists THEN "sleeping" ELSE "raised"]
    /\ UNCHANGED <<index, response, request, opLog, scraped_data, all_chunks>>

\* lines 45-48 and 23-27: the wait after creating, or the existing index is
\* used; the vector store is initialised and the client is constructed
Connect(client) ==
    /\ \/ workers[client].at = "sleeping"
       \/ workers[client].at = "listed" /\ workers[client].listed
    /\ workers' = [workers EXCEPT ![client].at = "constructed"]
    /\ UNCHANGED <<indexExists, index, response, request, trace, opLog, calls, scraped_data,
                   all_chunks>>

BeginConstruction == \E client \in Clients : Construct(client)
CallListIndexes == \E client \in Clients, ok \in BOOLEAN : ListIndexes(client, ok)
CallCreateIndex == \E client \in Clients, ok \in BOOLEAN : CreateIndex(client, ok)
FinishConstruction == \E client \in Clients : Connect(client)

NextSetup == BeginConstruction \/ CallListIndexes \/ CallCreateIndex \/ FinishConstruction

SpecSetup == InitSetup /\ [][NextSetup]_vars

\* C29: over all the constructions create_index is invoked at most once, and
\* never while the index name exists.
C29_CreateIndexAtMostOnce ==
    /\ Cardinality(CallsOfKind("create_index")) <= 1
    /\ \A k \in 1..Len(trace) : trace[k].step = "create_index" => ~trace[k].out

-----------------------------------------------------------------------------
(* scrape_all_f1_content step by step: every wikipedia.page lookup is a step
   of its own, answered in whatever way the service chooses at that moment.
   workers holds the frames of scrape_page_content on the interpreter's stack,
   the innermost last. *)

\* the frames of scrape_page_content the interpreter lets one thread stack up:
\* sys.getrecursionlimit(), 1000 frames in all unless changed, and nothing in
\* the repository changes it
MaxFrames == 3
\* the topics of the list that are visited
MaxVisited == 3

visited_pages == TakeFirst(get_f1_related_pages, MaxVisited)
LookupAnswers == WikiAnswers \cup {Disambiguation(<<>>)}

\* a frame of scrape_page_content(title): at line 49 ("page"), or in the
\* handler of DisambiguationError at lines 93-94 with e.options[0] ("option")
Frame(title, at, option) == [title |-> title, at |-> at, option |-> option]

\* a recursive call that takes the place of its caller's frame
RecurseInPlace(stack, option) ==
    [raised |-> FALSE,
     stack |-> SubSeq(stack, 1, Len(stack) - 1) \o <<Frame(option, "page", "")>>]

\* line 94, self.scrape_page_content(e.options[0]): a new frame on top of the
\* caller's, or RecursionError when the interpreter allows no further frame
Recurse(stack, option) ==
    IF Len(stack) >= MaxFrames
    THEN [raised |-> TRUE, stack |-> stack]
    ELSE [raised |-> FALSE, stack |-> Append(stack, Frame(option, "page", ""))]

InitWiki ==
    /\ workers = <<>>
    /\ scraped_data = <<>>
    /\ request = [operation |-> "scrape_all_f1_content", next |-> 1]
    /\ response = None
    /\ trace = <<>>
    /\ indexExists = TRUE
    /\ index = <<>>
    /\ opLog = <<>>
    /\ calls = <<>>
    /\ all_chunks = <<>>

\* lines 107-110: the call for the next page title
VisitPage ==
    /\ workers = <<>>
    /\ response = None
    /\ request.next <= Len(visited_pages)
    /\ workers' = <<Frame(visited_pages[request.next], "page", "")>>
    /\ UNCHANGED <<indexExists, index, response, request, trace, opLog, calls, scraped_data,
                   all_chunks>>

\* the innermost frame returns content and every frame below it returns the
\* same (line 94); lines 108-110 keep it when it is not None
ReturnContent(content) ==
    /\ workers' = <<>>
    /\ scraped_data' = IF content # None THEN Append(scraped_data, content) ELSE scraped_data
    /\ trace' = Append(trace, Step("scrape_page_content",
                                   [page_title |-> visited_pages[request.next],
                                    frames |-> Len(workers)],
                                   content))
    /\ request' = [request EXCEPT !.next = @ + 1]
    /\ UNCHANGED <<indexExists, index, response, opLog, calls, all_chunks>>

\* line 49, wikipedia.page(page_title): the page (lines 51-86), an error
\* (lines 98-100), or DisambiguationError (line 90), whose handler reads
\* e.options[0] inside its own try
LookUpPage(answer) ==
    /\ workers # <<>>
    /\ workers[Len(workers)].at = "page"
    /\ IF answer.kind = "page" THEN ReturnContent(ContentData(answer.page))
       ELSE IF answer.kind = "error" \/ answer.options = <<>> THEN ReturnContent(None)
       ELSE /\ workers' = [workers EXCEPT ![Len(workers)] =
                              Frame(@.title, "option", answer.options[1])]
            /\ UNCHANGED <<indexExists, index, response, request, trace, opLog, calls,
                           scraped_data, all_chunks>>

\* line 93, wikipedia.page(e.options[0]), and line 94 when it answered with a
\* page; whatever is raised in lines 93-94 ends in the bare except (95-97)
LookUpOption(answer) ==
    /\ workers # <<>>
    /\ workers[Len(workers)].at = "option"
    /\ IF answer.kind # "page" THEN ReturnContent(None)
       ELSE \E call \in {Recurse(workers, workers[Len(workers)].option)} :
               IF call.raised THEN ReturnContent(None)
               ELSE /\ workers' = call.stack
                    /\ UNCHANGED <<indexExists, index, response, request, trace, opLog, calls,
                                   scraped_data, all_chunks>>

\* lines 112-113: the list is exhausted, scraped_content is returned
ReturnDocuments ==
    /\ workers = <<>>
    /\ response = None
    /\ request.next > Len(visited_pages)
    /\ response' = Ret(scraped_data)
    /\ UNCHANGED <<indexExists, index, request, trace, opLog, calls, scraped_data, all_chunks,
                   workers>>

AnswerPageLookup == \E answer \in LookupAnswers : LookUpPage(answer)
AnswerOptionLookup == \E answer \in LookupAnswers : LookUpOption(answer)

NextWiki == VisitPage \/ AnswerPageLookup \/ AnswerOptionLookup \/ ReturnDocuments

\* the thread runs on, and every lookup is answered
SpecWiki == InitWiki /\ [][NextWiki]_vars /\ WF_vars(NextWiki)

\* the documents among the results of the first n visits, in order
RECURSIVE DocumentsOfVisits(_)
DocumentsOfVisits(n) ==
    IF n = 0 THEN <<>>
    ELSE DocumentsOfVisits(n - 1)
         \o (IF trace[n].out # None THEN <<trace[n].out>> ELSE <<>>)

WikiReturned == response # None

\* what holds of a finished run: each page title of the list was visited once,
\* in order, and the result is the list of the documents, None left out
VisitedEachOnce ==
    WikiReturned =>
        /\ Len(trace) = Len(visited_pages)
        /\ \A k \in 1..Len(trace) : trace[k].arg.page_title = visited_pages[k]
        /\ response = Ret(DocumentsOfVisits(Len(trace)))
        /\ \A k \in 1..Len(response.val) : response.val[k] # None

\* C30: whatever the lookups answer, scrape_all_f1_content returns; no call of
\* scrape_page_content ever has more than the allowed frames stacked up, each
\* ends with a document or None, and the run has then visited every page
\* title once and returns the documents that are not None.
C30_ScrapeTerminates ==
    /\ <>WikiReturned
    /\ [](Len(workers) <= MaxFrames)
    /\ []VisitedEachOnce

\* a finished run in which one title recursed until no further frame was
\* allowed and ended with None, and another was resolved to a document through
\* the first option of a disambiguation
C30_Witness ==
    /\ WikiReturned
    /\ \E k \in 1..Len(trace) : trace[k].arg.frames = MaxFrames /\ trace[k].out = None
    /\ \E k \in 1..Len(trace) : trace[k].arg.frames = 2 /\ trace[k].out # None

====
